---- MODULE Spec2Model ----
(***************************************************************************)
(* Runtime engine of discord-code-agent: the event-sourced runtime store,  *)
(* AgentService (enqueue / retry / startSession) and the JobCoordinator    *)
(* run loop (kick / pickNextRunnable / processJob).                        *)
(*                                                                         *)
(* AgentService and JobCoordinator are translated from                     *)
(* src/src/agent/agent-service.ts and src/src/runner/job-coordinator.ts.   *)
(* The runtime store (state/runtime-store.ts, state/replay.ts) and the     *)
(* constants file are not part of the source tree; they are modelled from  *)
(* the specification (sections 4.1, 4.2, 4.5 and 6).                       *)
(***************************************************************************)
EXTENDS Integers, Sequences, FiniteSets, TLC

(***************************************************************************)
(* Program constants                                                       *)
(***************************************************************************)
GLOBAL_MAX_RUNNING == 2

MAX_QUEUE_PER_SESSION == 20

(***************************************************************************)
(* Bounds of the model                                                     *)
(***************************************************************************)
\* job ids handed out by createJobId
MaxJobs == 2

\* job ids handed out by createJobId in the three-thread engine (SpecCap)
CapJobs == 3

\* job ids handed out by createJobId in the restart specification (SpecStore)
StoreJobs == 2

\* job ids handed out by createJobId in the full-queue specification (SpecQueue)
QueueJobs == 22

\* message ids a chat thread delivers
MaxMsgs == 2

\* SessionCreated events written by startSession
MaxSessionEvents == 2

\* crashes of the process
MaxCrashes == 1

\* job ids handed out by createJobId in the retry specification (SpecRetry)
RetryJobs == 2

ToolJobs == 2

OwnerJobs == 1

OwnerSessions == 1

LiveJobs == 2

MaxLines == 3

JobJobs == 2

PickJobs == 2

ResumeJobs == 3

SchedMaxRunning == 2

SchedMaxQueue == 2

ProbeQueue == 2

JobMaxLines == 1

KickJobs == 2

HookJobs == 2

\* job ids and SessionCreated events of the fair specification (SpecFair)
FairJobs == 3

FairSessions == 4

\* bytes a child process writes to its stdout and to its stderr (SpecLines)
MaxBytes == 3

MaxErrBytes == 2

MaxToolChanges == 2

\* job ids handed out by createJobId in the damaged-log specification (SpecReplay)
ReplayJobs == 1

Threads == {"ta", "tb", "tc"}

Tools == {"gemini", "codex"}

Users == {"owner", "stranger"}

ProjectName == "my-app"

\* null of a job id field (job ids start at 1) and of a timestamp
Null == 0

NoKey == "none"

(***************************************************************************)
(* Runtime state: sessions, jobs, dedupe, seq (spec 4.2).  `order` is the  *)
(* insertion order of the keys of the sessions object.                     *)
(***************************************************************************)
EmptyState ==
  [sessions |-> <<>>, order |-> <<>>, jobs |-> <<>>, dedupe |-> <<>>, seq |-> 0]

EmptyAdapterState == [session_id |-> NoKey, thread_id |-> NoKey]

\* an adapter_state that is replaced by the map of the event
ReplaceAdapterState(old, upd) == upd

\* adapter_state maps are merged key by key: a key of `upd` wins when present
MergeAdapterState(old, upd) ==
  [session_id |-> IF upd.session_id # NoKey THEN upd.session_id ELSE old.session_id,
   thread_id  |-> IF upd.thread_id # NoKey THEN upd.thread_id ELSE old.thread_id]

\* the dedup key thread_id + ":" + discord_message_id
DedupeKey(thread, msg) == <<thread>> \o msg

\* message id of a chat message and the synthetic message id of a retry
ChatMsg(m) == <<"msg", m, 0>>

RetryMsg(old, new) == <<"retry", old, new>>

\* f with key k set to v, adding the key when it is new
Put(f, k, v) == [x \in (DOMAIN f) \cup {k} |-> IF x = k THEN v ELSE f[x]]

Has(f, k) == k \in DOMAIN f

NewSession(e) ==
  [thread_id |-> e.thread_id, project_name |-> e.project_name, tool |-> e.tool,
   adapter_state |-> e.adapter_state, queue |-> <<>>, running_job_id |-> Null,
   last_job_id |-> Null, created_at |-> e.ts, last_activity_at |-> e.ts]

NewJob(e) ==
  [job_id |-> e.job_id, thread_id |-> e.thread_id,
   discord_message_id |-> e.discord_message_id, state |-> "queued",
   prompt |-> e.prompt, tool |-> e.tool, attempt |-> e.attempt,
   error_code |-> "none", started_at |-> Null, finished_at |-> Null,
   result_excerpt |-> "none"]

\* the session of an event's thread changed by `upd`, when the session exists
WithSession(s, t, Upd(_)) ==
  IF Has(s.sessions, t) THEN Put(s.sessions, t, Upd(s.sessions[t])) ELSE s.sessions

WithJob(s, j, Upd(_)) ==
  IF Has(s.jobs, j) THEN Put(s.jobs, j, Upd(s.jobs[j])) ELSE s.jobs

ApplySessionCreated(s, e) ==
  [s EXCEPT !.sessions = Put(s.sessions, e.thread_id, NewSession(e)),
            !.order = IF Has(s.sessions, e.thread_id) THEN @ ELSE Append(@, e.thread_id)]

ApplyToolChanged(s, e) ==
  LET Upd(x) == [x EXCEPT !.tool = e.tool]
  IN [s EXCEPT !.sessions = WithSession(s, e.thread_id, Upd)]

ApplyJobEnqueued(s, e) ==
  LET Upd(x) == [x EXCEPT !.queue = Append(@, e.job_id), !.last_activity_at = e.ts]
  IN [s EXCEPT !.jobs = Put(s.jobs, e.job_id, NewJob(e)),
               !.sessions = WithSession(s, e.thread_id, Upd),
               !.dedupe = Put(s.dedupe, DedupeKey(e.thread_id, e.discord_message_id), e.job_id)]

ApplyJobStarted(s, e) ==
  LET UpdS(x) == [x EXCEPT !.running_job_id = e.job_id,
                           !.queue = IF @ = <<>> THEN @ ELSE Tail(@)]
      UpdJ(x) == [x EXCEPT !.state = "running", !.started_at = e.ts]
  IN [s EXCEPT !.jobs = WithJob(s, e.job_id, UpdJ),
               !.sessions = WithSession(s, e.thread_id, UpdS)]

ApplyJobCompleted(s, e) ==
  LET UpdS(x) == [x EXCEPT !.running_job_id = Null, !.last_job_id = e.job_id,
                           !.adapter_state = MergeAdapterState(@, e.adapter_state)]
      UpdJ(x) == [x EXCEPT !.state = "success", !.finished_at = e.ts,
                           !.result_excerpt = e.result_excerpt]
  IN [s EXCEPT !.jobs = WithJob(s, e.job_id, UpdJ),
               !.sessions = WithSession(s, e.thread_id, UpdS)]

ApplyJobFailed(s, e) ==
  LET UpdS(x) == [x EXCEPT !.running_job_id = Null, !.last_job_id = e.job_id,
                           !.adapter_state = MergeAdapterState(@, e.adapter_state)]
      UpdJ(x) == [x EXCEPT !.state = "failed", !.finished_at = e.ts,
                           !.error_code = e.error_code]
  IN [s EXCEPT !.jobs = WithJob(s, e.job_id, UpdJ),
               !.sessions = WithSession(s, e.thread_id, UpdS)]

\* the mark clears the session but leaves the job running
ApplyMarkedKeepsRunning(s, e) ==
  LET UpdS(x) == [x EXCEPT !.running_job_id = Null, !.last_job_id = e.job_id]
  IN [s EXCEPT !.sessions = WithSession(s, e.thread_id, UpdS)]

ApplyJobMarkedUnknownAfterCrash(s, e) ==
  LET UpdS(x) == [x EXCEPT !.running_job_id = Null, !.last_job_id = e.job_id]
      UpdJ(x) == [x EXCEPT !.state = "unknown_after_crash"]
  IN [s EXCEPT !.jobs = WithJob(s, e.job_id, UpdJ),
               !.sessions = WithSession(s, e.thread_id, UpdS)]

\* the reducers of the events other than the recovery mark
ApplyEngineEvent(s, e) ==
  CASE e.type = "SessionCreated" -> ApplySessionCreated(s, e)
    [] e.type = "ToolChanged" -> ApplyToolChanged(s, e)
    [] e.type = "JobEnqueued" -> ApplyJobEnqueued(s, e)
    [] e.type = "JobStarted" -> ApplyJobStarted(s, e)
    [] e.type = "JobCompleted" -> ApplyJobCompleted(s, e)
    [] e.type = "JobFailed" -> ApplyJobFailed(s, e)
    [] OTHER -> s

\* the recovery mark is applied without advancing the last applied seq
ApplyEventKeepsSeq(s, e) ==
  IF e.type = "JobMarkedUnknownAfterCrash"
  THEN ApplyJobMarkedUnknownAfterCrash(s, e)
  ELSE [ApplyEngineEvent(s, e) EXCEPT !.seq = e.seq]

\* (prior state, event) -> next state; the last applied seq becomes e.seq
ApplyEvent(s, e) ==
  LET t == CASE e.type = "SessionCreated" -> ApplySessionCreated(s, e)
             [] e.type = "ToolChanged" -> ApplyToolChanged(s, e)
             [] e.type = "JobEnqueued" -> ApplyJobEnqueued(s, e)
             [] e.type = "JobStarted" -> ApplyJobStarted(s, e)
             [] e.type = "JobCompleted" -> ApplyJobCompleted(s, e)
             [] e.type = "JobFailed" -> ApplyJobFailed(s, e)
             [] e.type = "JobMarkedUnknownAfterCrash" -> ApplyJobMarkedUnknownAfterCrash(s, e)
             [] OTHER -> s
  IN [t EXCEPT !.seq = e.seq]

(***************************************************************************)
(* Startup replay, snapshot and crash recovery (spec 4.1)                  *)
(***************************************************************************)
NoSnapshot == [present |-> FALSE, state |-> EmptyState]

\* the projection plus the seq it covers
TakeSnapshot(s) == [present |-> TRUE, state |-> s]

\* the state a replay starts from: the snapshot when present, else empty
LoadSnapshot(snap) == IF snap.present THEN snap.state ELSE EmptyState

\* replay that does not skip the event the snapshot already covers
RECURSIVE ReplayFromExclusive(_, _, _, _)
ReplayFromExclusive(s, events, i, startSeq) ==
  IF i > Len(events) THEN [ok |-> TRUE, state |-> s]
  ELSE IF events[i].seq < startSeq THEN ReplayFromExclusive(s, events, i + 1, startSeq)
  ELSE IF events[i].seq = s.seq + 1
       THEN ReplayFromExclusive(ApplyEvent(s, events[i]), events, i + 1, startSeq)
  ELSE [ok |-> FALSE, state |-> s]

\* replay that applies every later event without comparing its seq
RECURSIVE ReplayFromUnchecked(_, _, _, _)
ReplayFromUnchecked(s, events, i, startSeq) ==
  IF i > Len(events) THEN [ok |-> TRUE, state |-> s]
  ELSE IF events[i].seq <= startSeq THEN ReplayFromUnchecked(s, events, i + 1, startSeq)
  ELSE ReplayFromUnchecked(ApplyEvent(s, events[i]), events, i + 1, startSeq)

\* stream the log: skip seq <= start seq, apply seq = last + 1, fail on the rest
RECURSIVE ReplayFrom(_, _, _, _)
ReplayFrom(s, events, i, startSeq) ==
  IF i > Len(events) THEN [ok |-> TRUE, state |-> s]
  ELSE IF events[i].seq <= startSeq THEN ReplayFrom(s, events, i + 1, startSeq)
  ELSE IF events[i].seq = s.seq + 1
       THEN ReplayFrom(ApplyEvent(s, events[i]), events, i + 1, startSeq)
  ELSE [ok |-> FALSE, state |-> s]

Replay(snap, events) ==
  ReplayFrom(LoadSnapshot(snap), events, 1, LoadSnapshot(snap).seq)

\* ids of the jobs in state running, in the order of the jobs map
RunningJobs(s) == {j \in DOMAIN s.jobs : s.jobs[j].state = "running"}

Min(S) == CHOOSE x \in S : \A y \in S : x <= y

RECURSIVE SetToSeq(_)
SetToSeq(S) == IF S = {} THEN <<>> ELSE <<Min(S)>> \o SetToSeq(S \ {Min(S)})

Envelope(seq, ts, type, payload) ==
  [seq |-> seq, ts |-> ts, type |-> type] @@ payload

\* recoverRunningJobsAfterCrash: one JobMarkedUnknownAfterCrash per running job
RECURSIVE RecoverJobs(_, _, _, _)
RecoverJobs(s, events, ids, ts) ==
  IF ids = <<>> THEN [state |-> s, log |-> events]
  ELSE LET e == Envelope(s.seq + 1, ts, "JobMarkedUnknownAfterCrash",
                         [thread_id |-> s.jobs[Head(ids)].thread_id, job_id |-> Head(ids)])
       IN RecoverJobs(ApplyEvent(s, e), Append(events, e), Tail(ids), ts)

RecoverRunningJobsAfterCrash(s, events, ts) ==
  LET ids == SetToSeq(RunningJobs(s))
  IN RecoverJobs(s, events, ids, ts) @@ [marked |-> ids]

(***************************************************************************)
(* State of the process                                                    *)
(***************************************************************************)
VARIABLES
  state,           \* RuntimeStore: in-memory projection (sessions, jobs, dedupe, seq)
  log,             \* events.ndjson
  snapshot,        \* snapshot.json
  appendQ,         \* appendEvent calls waiting for the single writer
  clock,           \* wall clock, the ts of the last event written
  phase,           \* "up", "down" (crashed), "opened" (replayed), "recovered",
                   \* "aborted" (startup failed, the process exited)
  crashes,         \* crashes so far
  projects,        \* ConfigStore: names of the projects in config.json
  idCounter,       \* AgentService.idCounter (with the stamp: ids never repeat)
  runningThreads,  \* JobCoordinator.runningThreads
  tasks,           \* JobCoordinator.runningPromises: position of each processJob
  kicking,         \* JobCoordinator.kicking
  ret,             \* history: outcome of the last operation that returned
  marked,          \* history: ids returned by the last recovery run
  adapterRun,      \* one ToolAdapter.run call: the runner's replies, its position, its result
  scheduler,       \* a standalone SessionQueueScheduler and the outcome of its last call
  probe            \* a call of a pure function: its input and its result

\* the process: runtime store, config, service and coordinator
engine == <<state, log, snapshot, appendQ, clock, phase, crashes, projects, idCounter,
            runningThreads, tasks, kicking, ret, marked>>

\* the parts exercised on their own, outside the process
bench == <<adapterRun, scheduler, probe>>

vars == <<engine, bench>>

\* a part that is not exercised
Unused == "unused"

\* a processJob call: its job, its position, and the adapter input of its run.
\* Positions: "appendStarted" (awaiting the JobStarted append), "started"
\* (onJobStarted fired), "adapter" (awaiting adapter.run), "appendEnd"
\* (awaiting the final append that onJobFinished follows), "ended"
\* (onJobFinished fired), "appendReturn" and "returned" (the JobFailed append
\* of a failed lookup and the return that follows it, without hook)
NoTask == [job |-> Null, pc |-> "none", tool |-> "none", resumeKey |-> NoKey]

NewTask(j) == [job |-> j, pc |-> "appendStarted", tool |-> "none", resumeKey |-> NoKey]

NoRet == [op |-> "none", code |-> "none", thread |-> "none", msg |-> <<>>,
          job |-> Null, deduped |-> FALSE]

Ret(op, code, thread, msg, job, deduped) ==
  [op |-> op, code |-> code, thread |-> thread, msg |-> msg, job |-> job,
   deduped |-> deduped]

\* a process that is up with `events` on disk and applied, and nothing in flight
InitEngine(events, projs) ==
  /\ state = Replay(NoSnapshot, events).state
  /\ log = events
  /\ snapshot = NoSnapshot
  /\ appendQ = <<>>
  /\ clock = Len(events)
  /\ phase = "up"
  /\ crashes = 0
  /\ projects = projs
  /\ idCounter = 0
  /\ runningThreads = {}
  /\ tasks = [t \in Threads |-> NoTask]
  /\ kicking = FALSE
  /\ ret = NoRet
  /\ marked = <<>>

\* the process alone: no part is exercised on its own
InitWith(events, projs) ==
  /\ InitEngine(events, projs)
  /\ adapterRun = Unused
  /\ scheduler = Unused
  /\ probe = Unused

(***************************************************************************)
(* JobCoordinator (src/src/runner/job-coordinator.ts)                      *)
(***************************************************************************)
\* position in Object.values(state.sessions) of thread t
IndexOf(seq, t) == CHOOSE i \in 1..Len(seq) : seq[i] = t

\* sessions sorted by last_activity_at (stable: ties keep insertion order)
SortsBefore(s, a, b) ==
  \/ s.sessions[a].last_activity_at < s.sessions[b].last_activity_at
  \/ /\ s.sessions[a].last_activity_at = s.sessions[b].last_activity_at
     /\ IndexOf(s.order, a) < IndexOf(s.order, b)

\* a session pickNextRunnable does not skip
Runnable(s, rt, t) ==
  /\ t \notin rt
  /\ s.sessions[t].running_job_id = Null
  /\ s.sessions[t].queue # <<>>

NoPick == [threadId |-> "none", jobId |-> Null]

pickNextRunnable(s, rt) ==
  LET cands == {t \in DOMAIN s.sessions : Runnable(s, rt, t)}
  IN IF cands = {} THEN NoPick
     ELSE LET t == CHOOSE a \in cands : \A b \in cands \ {a} : SortsBefore(s, a, b)
          IN [threadId |-> t, jobId |-> Head(s.sessions[t].queue)]

\* a pending appendEvent call: the payload and the caller that awaits it
Request(type, payload, who) == [type |-> type, payload |-> payload, who |-> who]

Who(kind, thread, job, msg) == [kind |-> kind, thread |-> thread, job |-> job, msg |-> msg]

\* the slots the run loop may still fill
HasFreeSlot(rt) == Cardinality(rt) < GLOBAL_MAX_RUNNING

\* a run loop whose processJob goes on without appending JobStarted
RECURSIVE kickLoopNoStart(_, _, _, _)
kickLoopNoStart(s, rt, tk, q) ==
  IF ~HasFreeSlot(rt) THEN [rt |-> rt, tk |-> tk, q |-> q]
  ELSE LET next == pickNextRunnable(s, rt)
       IN IF next = NoPick THEN [rt |-> rt, tk |-> tk, q |-> q]
          ELSE kickLoopNoStart(s, rt \cup {next.threadId},
                               [tk EXCEPT ![next.threadId] =
                                  [NewTask(next.jobId) EXCEPT !.pc = "started"]],
                               q)

\* the while loop of kick: admit runnable jobs while a slot is free; each
\* admitted processJob runs up to its first await, the JobStarted append
RECURSIVE kickLoop(_, _, _, _)
kickLoop(s, rt, tk, q) ==
  IF ~HasFreeSlot(rt) THEN [rt |-> rt, tk |-> tk, q |-> q]
  ELSE LET next == pickNextRunnable(s, rt)
       IN IF next = NoPick THEN [rt |-> rt, tk |-> tk, q |-> q]
          ELSE kickLoop(s, rt \cup {next.threadId},
                        [tk EXCEPT ![next.threadId] = NewTask(next.jobId)],
                        Append(q, Request("JobStarted",
                                          [thread_id |-> next.threadId, job_id |-> next.jobId],
                                          Who("task", next.threadId, next.jobId, <<>>))))

\* kick(): returns at once when already kicking
kick(s, rt, tk, q) ==
  IF kicking THEN [rt |-> rt, tk |-> tk, q |-> q] ELSE kickLoop(s, rt, tk, q)

\* processJob after the awaited JobStarted append and onJobStarted hook: the
\* lookups of session, job and project, then adapter.run (lines 166-208)
extractResumeKey(session) ==
  IF session.tool = "codex" THEN session.adapter_state.thread_id
  ELSE session.adapter_state.session_id

\* the adapterState a tool's adapter returns with a successful run
KeyOf(tool) ==
  IF tool = "codex" THEN [session_id |-> NoKey, thread_id |-> tool]
  ELSE [session_id |-> tool, thread_id |-> NoKey]

UpOnly == phase = "up"

\* notifyNewWork / waitForIdle: a kick on its own
Kick ==
  /\ UpOnly
  /\ LET r == kick(state, runningThreads, tasks, appendQ)
     IN /\ runningThreads' = r.rt
        /\ tasks' = r.tk
        /\ appendQ' = r.q
  /\ UNCHANGED <<state, log, snapshot, clock, phase, crashes, projects, idCounter,
                 kicking, ret, marked, bench>>

\* hasQueuedJobs: some session has a job waiting in its queue
hasQueuedJobs(s) == \E t \in DOMAIN s.sessions : s.sessions[t].queue # <<>>

\* one turn of the loop of waitForIdle: kick, then return when no processJob
\* promise is left (runningPromises holds one per thread of runningThreads)
\* and no session has a queued job; otherwise sleep and stay pending
waitForIdle ==
  /\ UpOnly
  /\ LET r == kick(state, runningThreads, tasks, appendQ)
     IN /\ runningThreads' = r.rt
        /\ tasks' = r.tk
        /\ appendQ' = r.q
        /\ ret' = IF r.rt = {} /\ ~hasQueuedJobs(state)
                  THEN Ret("waitForIdle", "ok", "none", <<>>, Null, FALSE)
                  ELSE Ret("waitForIdle", "pending", "none", <<>>, Null, FALSE)
  /\ UNCHANGED <<state, log, snapshot, clock, phase, crashes, projects, idCounter,
                 kicking, marked, bench>>

\* a processJob that resolves the adapter of the session's current tool
TaskLookupSessionTool(t) ==
  /\ UpOnly
  /\ tasks[t].pc = "started"
  /\ LET j == tasks[t].job
         who == Who("task", t, j, <<>>)
         missing == ~Has(state.sessions, t) \/ ~Has(state.jobs, j)
     IN IF missing
        THEN /\ appendQ' = Append(appendQ, Request("JobFailed",
                     [thread_id |-> t, job_id |-> j, error_code |-> "E_ADAPTER_PARSE",
                      adapter_state |-> EmptyAdapterState], who))
             /\ tasks' = [tasks EXCEPT ![t].pc = "appendReturn"]
        ELSE IF state.sessions[t].project_name \notin projects
        THEN /\ appendQ' = Append(appendQ, Request("JobFailed",
                     [thread_id |-> t, job_id |-> j, error_code |-> "E_PROJECT_NOT_FOUND",
                      adapter_state |-> EmptyAdapterState], who))
             /\ tasks' = [tasks EXCEPT ![t].pc = "appendReturn"]
        ELSE /\ tasks' = [tasks EXCEPT ![t] =
                     [job |-> j, pc |-> "adapter", tool |-> state.sessions[t].tool,
                      resumeKey |-> extractResumeKey(state.sessions[t])]]
             /\ UNCHANGED appendQ
  /\ UNCHANGED <<state, log, snapshot, clock, phase, crashes, projects, idCounter,
                 runningThreads, kicking, ret, marked, bench>>


TaskLookup(t) ==
  /\ UpOnly
  /\ tasks[t].pc = "started"
  /\ LET j == tasks[t].job
         who == Who("task", t, j, <<>>)
         missing == ~Has(state.sessions, t) \/ ~Has(state.jobs, j)
     IN IF missing
        THEN /\ appendQ' = Append(appendQ, Request("JobFailed",
                     [thread_id |-> t, job_id |-> j, error_code |-> "E_ADAPTER_PARSE",
                      adapter_state |-> EmptyAdapterState], who))
             /\ tasks' = [tasks EXCEPT ![t].pc = "appendReturn"]
        ELSE IF state.sessions[t].project_name \notin projects
        THEN /\ appendQ' = Append(appendQ, Request("JobFailed",
                     [thread_id |-> t, job_id |-> j, error_code |-> "E_PROJECT_NOT_FOUND",
                      adapter_state |-> EmptyAdapterState], who))
             /\ tasks' = [tasks EXCEPT ![t].pc = "appendReturn"]
        ELSE /\ tasks' = [tasks EXCEPT ![t] =
                     [job |-> j, pc |-> "adapter", tool |-> state.jobs[j].tool,
                      resumeKey |-> extractResumeKey(state.sessions[t])]]
             /\ UNCHANGED appendQ
  /\ UNCHANGED <<state, log, snapshot, clock, phase, crashes, projects, idCounter,
                 runningThreads, kicking, ret, marked, bench>>

\* a processJob that appends its final event and stays at its adapter step
AdapterReturnsAgain(t, ok) ==
  /\ UpOnly
  /\ tasks[t].pc = "adapter"
  /\ LET j == tasks[t].job
         who == Who("task", t, j, <<>>)
     IN appendQ' = Append(appendQ,
          IF ok THEN Request("JobCompleted",
                       [thread_id |-> t, job_id |-> j, result_excerpt |-> "done",
                        adapter_state |-> KeyOf(tasks[t].tool)], who)
          ELSE Request("JobFailed",
                       [thread_id |-> t, job_id |-> j, error_code |-> "E_CLI_EXIT_NONZERO",
                        adapter_state |-> EmptyAdapterState], who))
  /\ UNCHANGED <<state, log, snapshot, clock, phase, crashes, projects, idCounter,
                 runningThreads, tasks, kicking, ret, marked, bench>>

\* adapter.run returned and the job log was written: the final event is appended
AdapterReturns(t, ok) ==
  /\ UpOnly
  /\ tasks[t].pc = "adapter"
  /\ LET j == tasks[t].job
         who == Who("task", t, j, <<>>)
     IN appendQ' = Append(appendQ,
          IF ok THEN Request("JobCompleted",
                       [thread_id |-> t, job_id |-> j, result_excerpt |-> "done",
                        adapter_state |-> KeyOf(tasks[t].tool)], who)
          ELSE Request("JobFailed",
                       [thread_id |-> t, job_id |-> j, error_code |-> "E_CLI_EXIT_NONZERO",
                        adapter_state |-> EmptyAdapterState], who))
  /\ tasks' = [tasks EXCEPT ![t].pc = "appendEnd"]
  /\ UNCHANGED <<state, log, snapshot, clock, phase, crashes, projects, idCounter,
                 runningThreads, kicking, ret, marked, bench>>

\* the .finally of kick: release the thread and kick again
Finally(t) ==
  LET r == kick(state, runningThreads \ {t}, [tasks EXCEPT ![t] = NoTask], appendQ)
  IN /\ runningThreads' = r.rt
     /\ tasks' = r.tk
     /\ appendQ' = r.q

\* processJob returned: after its final event and the onJobFinished hook
\* (which returned or threw), or right after the JobFailed of a failed lookup
TaskFinished(t) ==
  /\ UpOnly
  /\ tasks[t].pc \in {"ended", "returned"}
  /\ Finally(t)
  /\ UNCHANGED <<state, log, snapshot, clock, phase, crashes, projects, idCounter,
                 kicking, ret, marked, bench>>

\* processJob rejected after JobStarted was applied: the onJobStarted hook, the
\* adapter lookup, adapter.run or writeJobLog threw; .catch logs, .finally runs
TaskThrows(t) ==
  /\ UpOnly
  /\ tasks[t].pc \in {"started", "adapter"}
  /\ Finally(t)
  /\ UNCHANGED <<state, log, snapshot, clock, phase, crashes, projects, idCounter,
                 kicking, ret, marked, bench>>

(***************************************************************************)
(* AgentService (src/src/agent/agent-service.ts)                           *)
(***************************************************************************)
\* an owner check that lets every user through
IsOwnerAnyone(u) == u \in Users

\* assertOwner
IsOwner(u) == u = "owner"

\* an operation that fails or answers without writing: only its outcome is seen
Answer(r) ==
  /\ ret' = r
  /\ UNCHANGED <<state, log, snapshot, appendQ, clock, phase, crashes, projects,
                 idCounter, runningThreads, tasks, kicking, marked, bench>>

\* an operation that reaches its awaited appendEvent call
Submit(req) ==
  /\ appendQ' = Append(appendQ, req)
  /\ UNCHANGED <<state, log, snapshot, clock, phase, crashes, runningThreads, tasks,
                 kicking, ret, marked, bench>>

\* SessionCreated events written or waiting to be written
SessionEvents ==
  Cardinality({i \in 1..Len(log) : log[i].type = "SessionCreated"})
  + Cardinality({i \in 1..Len(appendQ) : appendQ[i].type = "SessionCreated"})

createProject(u) ==
  /\ UpOnly
  /\ IF ~IsOwner(u)
     THEN Answer(Ret("createProject", "E_OWNER_ONLY", "none", <<>>, Null, FALSE))
     ELSE IF ProjectName \in projects
     THEN Answer(Ret("createProject", "E_PROJECT_EXISTS", "none", <<>>, Null, FALSE))
     ELSE /\ projects' = projects \cup {ProjectName}
          /\ Submit(Request("ProjectCreated", [project_name |-> ProjectName],
                            Who("createProject", "none", Null, <<>>)))
          /\ UNCHANGED idCounter

startSession(u, t, tool, maxSessions) ==
  /\ UpOnly
  /\ IF ~IsOwner(u)
     THEN Answer(Ret("startSession", "E_OWNER_ONLY", t, <<>>, Null, FALSE))
     ELSE IF ProjectName \notin projects
     THEN Answer(Ret("startSession", "E_PROJECT_NOT_FOUND", t, <<>>, Null, FALSE))
     ELSE /\ SessionEvents < maxSessions
          /\ Submit(Request("SessionCreated",
                            [thread_id |-> t, project_name |-> ProjectName, tool |-> tool,
                             adapter_state |-> EmptyAdapterState],
                            Who("startSession", t, Null, <<>>)))
          /\ UNCHANGED <<projects, idCounter>>

\* off by one: refuses only above the maximum
QueueFullStrict(session) == Len(session.queue) > MAX_QUEUE_PER_SESSION

\* off by one: refuses one entry early
QueueFullEarly(session) == Len(session.queue) + 1 >= MAX_QUEUE_PER_SESSION

\* session.queue.length >= MAX_QUEUE_PER_SESSION
QueueFull(session) == Len(session.queue) >= MAX_QUEUE_PER_SESSION

\* the dedup index already holds the key
Existing(s, key) == Has(s.dedupe, key)

enqueueThreadMessage(u, t, m, limit) ==
  /\ UpOnly
  /\ LET msg == ChatMsg(m)
         key == DedupeKey(t, msg)
     IN IF ~IsOwner(u)
        THEN Answer(Ret("enqueue", "E_OWNER_ONLY", t, msg, Null, FALSE))
        ELSE IF ~Has(state.sessions, t)
        THEN Answer(Ret("enqueue", "E_NOT_IN_MANAGED_THREAD", t, msg, Null, FALSE))
        ELSE IF Existing(state, key)
        THEN Answer(Ret("enqueue", "ok", t, msg, state.dedupe[key], TRUE))
        ELSE IF QueueFull(state.sessions[t])
        THEN Answer(Ret("enqueue", "E_QUEUE_FULL", t, msg, Null, FALSE))
        ELSE /\ idCounter < limit
             /\ idCounter' = idCounter + 1
             /\ Submit(Request("JobEnqueued",
                               [thread_id |-> t, job_id |-> idCounter + 1,
                                discord_message_id |-> msg, prompt |-> m,
                                tool |-> state.sessions[t].tool, attempt |-> 1],
                               Who("enqueue", t, idCounter + 1, msg)))
             /\ UNCHANGED projects

\* a check that lets a finished job of any outcome be retried
RetryableAlsoSuccess(job) == job.state \in {"failed", "unknown_after_crash", "success"}

\* previous.state is failed or unknown_after_crash
Retryable(job) == job.state \in {"failed", "unknown_after_crash"}

\* a retry that enqueues the retried job again under its own id
retryJobSameId(u, j, limit) ==
  /\ UpOnly
  /\ IF ~IsOwner(u)
     THEN Answer(Ret("retry", "E_OWNER_ONLY", "none", <<>>, j, FALSE))
     ELSE IF ~Has(state.jobs, j)
     THEN Answer(Ret("retry", "E_JOB_NOT_RETRYABLE", "none", <<>>, j, FALSE))
     ELSE IF ~Retryable(state.jobs[j])
     THEN Answer(Ret("retry", "E_JOB_NOT_RETRYABLE", "none", <<>>, j, FALSE))
     ELSE /\ idCounter < limit
          /\ idCounter' = idCounter + 1
          /\ LET previous == state.jobs[j]
                 msg == RetryMsg(j, idCounter + 1)
             IN Submit(Request("JobEnqueued",
                               [thread_id |-> previous.thread_id, job_id |-> j,
                                discord_message_id |-> msg, prompt |-> previous.prompt,
                                tool |-> previous.tool, attempt |-> previous.attempt + 1],
                               Who("retry", previous.thread_id, j, msg)))
          /\ UNCHANGED projects

retryJob(u, j, limit) ==
  /\ UpOnly
  /\ IF ~IsOwner(u)
     THEN Answer(Ret("retry", "E_OWNER_ONLY", "none", <<>>, j, FALSE))
     ELSE IF ~Has(state.jobs, j)
     THEN Answer(Ret("retry", "E_JOB_NOT_RETRYABLE", "none", <<>>, j, FALSE))
     ELSE IF ~Retryable(state.jobs[j])
     THEN Answer(Ret("retry", "E_JOB_NOT_RETRYABLE", "none", <<>>, j, FALSE))
     ELSE /\ idCounter < limit
          /\ idCounter' = idCounter + 1
          /\ LET previous == state.jobs[j]
                 msg == RetryMsg(j, idCounter + 1)
             IN Submit(Request("JobEnqueued",
                               [thread_id |-> previous.thread_id, job_id |-> idCounter + 1,
                                discord_message_id |-> msg, prompt |-> previous.prompt,
                                tool |-> previous.tool, attempt |-> previous.attempt + 1],
                               Who("retry", previous.thread_id, idCounter + 1, msg)))
          /\ UNCHANGED projects

\* listProjects, listSessions: owner only, then a read
listProjects(u) ==
  /\ UpOnly
  /\ IF ~IsOwner(u)
     THEN Answer(Ret("listProjects", "E_OWNER_ONLY", "none", <<>>, Null, FALSE))
     ELSE Answer(Ret("listProjects", "ok", "none", <<>>, Null, FALSE))

listSessions(u) ==
  /\ UpOnly
  /\ IF ~IsOwner(u)
     THEN Answer(Ret("listSessions", "E_OWNER_ONLY", "none", <<>>, Null, FALSE))
     ELSE Answer(Ret("listSessions", "ok", "none", <<>>, Null, FALSE))

\* projectStatus: owner only, the project must exist
projectStatus(u) ==
  /\ UpOnly
  /\ IF ~IsOwner(u)
     THEN Answer(Ret("projectStatus", "E_OWNER_ONLY", "none", <<>>, Null, FALSE))
     ELSE IF ProjectName \notin projects
     THEN Answer(Ret("projectStatus", "E_PROJECT_NOT_FOUND", "none", <<>>, Null, FALSE))
     ELSE Answer(Ret("projectStatus", "ok", "none", <<>>, Null, FALSE))

\* openSession: owner only, the session must exist
openSession(u, t) ==
  /\ UpOnly
  /\ IF ~IsOwner(u)
     THEN Answer(Ret("openSession", "E_OWNER_ONLY", t, <<>>, Null, FALSE))
     ELSE IF ~Has(state.sessions, t)
     THEN Answer(Ret("openSession", "E_SESSION_NOT_FOUND", t, <<>>, Null, FALSE))
     ELSE Answer(Ret("openSession", "ok", t, <<>>, Null, FALSE))

\* status: owner only, the thread must be managed
status(u, t) ==
  /\ UpOnly
  /\ IF ~IsOwner(u)
     THEN Answer(Ret("status", "E_OWNER_ONLY", t, <<>>, Null, FALSE))
     ELSE IF ~Has(state.sessions, t)
     THEN Answer(Ret("status", "E_NOT_IN_MANAGED_THREAD", t, <<>>, Null, FALSE))
     ELSE Answer(Ret("status", "ok", t, <<>>, Null, FALSE))

\* ToolChanged events written or waiting to be written
ToolEvents ==
  Cardinality({i \in 1..Len(log) : log[i].type = "ToolChanged"})
  + Cardinality({i \in 1..Len(appendQ) : appendQ[i].type = "ToolChanged"})

\* changeTool (/tool): owner only, in a managed thread; writes ToolChanged and
\* leaves the queue alone
changeTool(u, t, tool, maxChanges) ==
  /\ UpOnly
  /\ IF ~IsOwner(u)
     THEN Answer(Ret("changeTool", "E_OWNER_ONLY", t, <<>>, Null, FALSE))
     ELSE IF ~Has(state.sessions, t)
     THEN Answer(Ret("changeTool", "E_SESSION_NOT_FOUND", t, <<>>, Null, FALSE))
     ELSE /\ ToolEvents < maxChanges
          /\ Submit(Request("ToolChanged", [thread_id |-> t, tool |-> tool],
                            Who("changeTool", t, Null, <<>>)))
          /\ UNCHANGED <<projects, idCounter>>

(***************************************************************************)
(* RuntimeStore.appendEvent: the single writer takes the oldest pending    *)
(* call, writes the envelope, applies it, and the awaiting caller resumes  *)
(***************************************************************************)
\* timestamps the clock can show for the next event
\* (with ties: two events may be written within the same millisecond)
NextTs(ties) == IF ties THEN {clock, clock + 1} ELSE {clock + 1}

AppendDone(ties) ==
  /\ UpOnly
  /\ appendQ # <<>>
  /\ \E ts \in NextTs(ties) :
       LET req == Head(appendQ)
           e == Envelope(state.seq + 1, ts, req.type, req.payload)
           ns == ApplyEvent(state, e)
           who == req.who
           rest == Tail(appendQ)
       IN /\ clock' = ts
          /\ log' = Append(log, e)
          /\ state' = ns
          /\ IF who.kind \in {"enqueue", "retry"}
             THEN \* this.coordinator.notifyNewWork(); return { jobId, ... }
                  LET r == kick(ns, runningThreads, tasks, rest)
                  IN /\ runningThreads' = r.rt
                     /\ tasks' = r.tk
                     /\ appendQ' = r.q
                     /\ ret' = Ret(who.kind, "ok", who.thread, who.msg, who.job, FALSE)
             ELSE IF who.kind = "task"
             THEN /\ tasks' = [tasks EXCEPT ![who.thread].pc =
                                 CASE @ = "appendStarted" -> "started"
                                   [] @ = "appendReturn" -> "returned"
                                   [] OTHER -> "ended"]
                  /\ appendQ' = rest
                  /\ UNCHANGED <<runningThreads, ret>>
             ELSE /\ ret' = Ret(who.kind, "ok", who.thread, who.msg, who.job, FALSE)
                  /\ appendQ' = rest
                  /\ UNCHANGED <<runningThreads, tasks>>
  /\ UNCHANGED <<snapshot, phase, crashes, projects, idCounter, kicking,
                 marked, bench>>

\* flushSnapshot (also the 50-event / 5-second trigger)
flushSnapshot ==
  /\ UpOnly
  /\ state.seq > LoadSnapshot(snapshot).seq
  /\ snapshot' = TakeSnapshot(state)
  /\ UNCHANGED <<state, log, appendQ, clock, phase, crashes, projects, idCounter,
                 runningThreads, tasks, kicking, ret, marked, bench>>

\* an append that rejects after its line reached the file: the event is on
\* disk but not applied
AppendFailsAfterWrite ==
  /\ UpOnly
  /\ appendQ # <<>>
  /\ Head(appendQ).who.kind = "task"
  /\ LET req == Head(appendQ)
         t == req.who.thread
         r == kick(state, runningThreads \ {t}, [tasks EXCEPT ![t] = NoTask], Tail(appendQ))
     IN /\ runningThreads' = r.rt
        /\ tasks' = r.tk
        /\ appendQ' = r.q
        /\ log' = Append(log, Envelope(state.seq + 1, clock, req.type, req.payload))
        /\ ret' = Ret("appendEvent", "rejected", t, <<>>, req.who.job, FALSE)
  /\ UNCHANGED <<state, snapshot, clock, phase, crashes, projects, idCounter,
                 kicking, marked, bench>>

\* appendEvent rejects for the oldest pending call of a processJob (disk
\* error): nothing is written or applied; the processJob that awaits it
\* rejects, .catch logs, .finally releases the thread and kicks again
AppendFails ==
  /\ UpOnly
  /\ appendQ # <<>>
  /\ Head(appendQ).who.kind = "task"
  /\ LET req == Head(appendQ)
         t == req.who.thread
         r == kick(state, runningThreads \ {t}, [tasks EXCEPT ![t] = NoTask], Tail(appendQ))
     IN /\ runningThreads' = r.rt
        /\ tasks' = r.tk
        /\ appendQ' = r.q
        /\ ret' = Ret("appendEvent", "rejected", t, <<>>, req.who.job, FALSE)
  /\ UNCHANGED <<state, log, snapshot, clock, phase, crashes, projects, idCounter,
                 kicking, marked, bench>>

(***************************************************************************)
(* Crash and startup (src/src/index.ts main, lines 20-21)                  *)
(***************************************************************************)
\* the process is killed: memory is lost, the files stay
Crash(maxCrashes) ==
  /\ UpOnly
  /\ crashes < maxCrashes
  /\ crashes' = crashes + 1
  /\ phase' = "down"
  /\ state' = EmptyState
  /\ appendQ' = <<>>
  /\ runningThreads' = {}
  /\ tasks' = [t \in Threads |-> NoTask]
  /\ UNCHANGED bench
  /\ marked' = <<>>
  /\ UNCHANGED <<log, snapshot, clock, projects, idCounter, kicking, ret>>

\* RuntimeStore.open: snapshot plus tail of the log; a gap aborts startup
\* (main rejects and the process exits: no state is served)
Open ==
  /\ phase = "down"
  /\ LET r == Replay(snapshot, log)
     IN IF r.ok
        THEN /\ state' = r.state
             /\ phase' = "opened"
        ELSE /\ state' = EmptyState
             /\ phase' = "aborted"
  /\ UNCHANGED <<log, snapshot, appendQ, clock, crashes, projects, idCounter,
                 runningThreads, tasks, kicking, ret, marked, bench>>

\* startup that goes on without running the recovery
RecoverSkipped(ties) ==
  /\ phase \in {"opened", "recovered"}
  /\ phase' = "recovered"
  /\ UNCHANGED bench
  /\ marked' = <<>>
  /\ UNCHANGED <<state, log, snapshot, appendQ, clock, crashes, projects, idCounter,
                 runningThreads, tasks, kicking, ret>>

\* runtimeStore.recoverRunningJobsAfterCrash()
Recover(ties) ==
  /\ phase \in {"opened", "recovered"}
  /\ \E ts \in NextTs(ties) :
       LET r == RecoverRunningJobsAfterCrash(state, log, ts)
       IN /\ state' = r.state
          /\ log' = r.log
          /\ UNCHANGED bench
          /\ marked' = r.marked
          /\ clock' = IF r.marked = <<>> THEN clock ELSE ts
  /\ phase' = "recovered"
  /\ UNCHANGED <<snapshot, appendQ, crashes, projects, idCounter, runningThreads, tasks,
                 kicking, ret>>

\* the coordinator, the service and the bot are constructed and started
Serve ==
  /\ phase = "recovered"
  /\ phase' = "up"
  /\ UNCHANGED <<state, log, snapshot, appendQ, clock, crashes, projects, idCounter,
                 runningThreads, tasks, kicking, ret, marked, bench>>

(***************************************************************************)
(* Specifications                                                          *)
(***************************************************************************)
(***************************************************************************)
(* Tool adapters: parsing helpers (src/unnamed/part_001 lines 1-76), the   *)
(* Claude adapter (src/src/config/config-store.ts lines 876-1018), the     *)
(* Codex adapter (src/src/adapters/codex-adapter.ts) and the Gemini        *)
(* adapter (src/unnamed/part_001 lines 78-303).                            *)
(*                                                                         *)
(* A stdout line is described by what the adapters look at: its first and  *)
(* last character after trim(), whether JSON.parse accepts it and what it  *)
(* yields, and its words (for the transient-error hints).  A JSON value   *)
(* is a string, Absent (undefined) or NonString.  errorMessage and         *)
(* assistantText are not carried.                                          *)
(***************************************************************************)
Absent == "absent"

NonString == "nonstring"

\* the members of an object, all undefined
NoObject == [type |-> Absent, session_id |-> Absent, thread_id |-> Absent, status |-> Absent]

\* a line that JSON.parse throws on
TextLine(lead, trail, words) ==
  [lead |-> lead, trail |-> trail, parses |-> FALSE, json |-> NoObject, words |-> words]

\* a line holding a JSON object with these top-level members
EventLine(type, session_id, thread_id, resultStatus, words) ==
  [lead |-> "{", trail |-> "}", parses |-> TRUE,
   json |-> [type |-> type, session_id |-> session_id, thread_id |-> thread_id,
             status |-> resultStatus],
   words |-> words]

\* lines that are no JSON object: a plain diagnostic, a diagnostic that starts
\* with a brace and carries a hint, and a brace-to-brace line that does not parse
PlainLine == TextLine("L", ".", <<"Loaded">>)

HintLine == TextLine("{", "d", <<"QUOTA", "exceeded">>)

BrokenLine == TextLine("{", "}", <<"broken">>)

\* the stdout lines of the Claude and Gemini command lines
SessionLines ==
  {PlainLine, HintLine, BrokenLine,
   EventLine("init", "s1", Absent, Absent, <<>>),
   EventLine("message", "s2", Absent, Absent, <<"retry">>),
   EventLine("init", "", Absent, Absent, <<>>),
   EventLine("result", Absent, Absent, "success", <<>>),
   EventLine("result", Absent, Absent, "error", <<>>),
   EventLine("result", NonString, Absent, Absent, <<>>)}

\* the stdout lines of the Codex command line
ThreadLines ==
  {PlainLine, HintLine, BrokenLine,
   EventLine("thread.started", Absent, "t1", Absent, <<>>),
   EventLine("item.completed", Absent, "t2", Absent, <<>>),
   EventLine("thread.started", Absent, "", Absent, <<>>),
   EventLine("turn.completed", Absent, NonString, Absent, <<>>)}

StderrChoices == {<<>>, <<TextLine("R", "t", <<"Rate", "limit">>)>>}

\* sequences over S of length at most n
RECURSIVE SeqsUpTo(_, _)
SeqsUpTo(S, n) ==
  IF n = 0 THEN {<<>>}
  ELSE LET shorter == SeqsUpTo(S, n - 1)
       IN shorter \cup {Append(q, x) : q \in {r \in shorter : Len(r) = n - 1}, x \in S}

\* CommandRunner.run rejected (spawn error)
SpawnError == [kind |-> "error"]

\* what CommandRunner.run can resolve to or reject with
RepliesUpTo(lines, n) ==
  {SpawnError}
  \cup {[kind |-> "result", exitCode |-> code, timedOut |-> late, stdoutLines |-> out,
         stderrLines |-> err] :
          code \in {0, 1}, late \in BOOLEAN, out \in SeqsUpTo(lines, n),
          err \in StderrChoices}

Replies(lines) == RepliesUpTo(lines, MaxLines)

\* isLikelyJsonObjectLine
isLikelyJsonObjectLine(line) == line.lead = "{" /\ line.trail = "}"

\* typeof v === "string"
IsString(v) == v \notin {Absent, NonString}

\* a test that takes "" for a key
TruthyAlsoEmpty(v) == v # NoKey

\* a string | null variable that is neither null nor ""
Truthy(v) == v # NoKey /\ v # ""

\* String.prototype.toLowerCase, word by word
LowerWords ==
  [w \in {"Loaded", "QUOTA", "exceeded", "broken", "retry", "Rate", "limit"} |->
     CASE w = "Loaded" -> "loaded"
       [] w = "QUOTA" -> "quota"
       [] w = "Rate" -> "rate"
       [] OTHER -> w]

toLowerCase(words) == [i \in 1..Len(words) |-> LowerWords[words[i]]]

Hints ==
  {<<"quota">>, <<"retry">>, <<"rate", "limit">>, <<"429">>,
   <<"temporarily", "unavailable">>}

\* String.prototype.includes on the words of one line
includes(words, hint) ==
  \E i \in 1..Len(words) :
    i + Len(hint) - 1 <= Len(words) /\ SubSeq(words, i, i + Len(hint) - 1) = hint

\* hasTransientErrorHint: the lines are joined by newlines, so a hint is found
\* within one line
hasTransientErrorHint(lines) ==
  \E i \in 1..Len(lines), h \in Hints : includes(toLowerCase(lines[i].words), h)

AdapterResult(ok, errorCode, adapterState, diagnosticLogs, stdoutLines, stderrLines) ==
  [ok |-> ok, errorCode |-> errorCode, adapterState |-> adapterState,
   diagnosticLogs |-> diagnosticLogs, stdoutLines |-> stdoutLines,
   stderrLines |-> stderrLines]

\* the post-run pass of ClaudeAdapter.run and parseGemini over stdout
NoScan ==
  [key |-> NoKey, diagnostics |-> <<>>, hasResult |-> FALSE, resultStatus |-> NoKey,
   parseError |-> FALSE]

\* a pass that takes every result event for a successful one
RECURSIVE ScanSessionLenient(_, _)
ScanSessionLenient(lines, acc) ==
  IF lines = <<>> THEN acc
  ELSE LET line == Head(lines)
       IN IF ~isLikelyJsonObjectLine(line)
          THEN ScanSessionLenient(Tail(lines),
                                  [acc EXCEPT !.diagnostics = Append(@, line)])
          ELSE IF ~line.parses
          THEN [acc EXCEPT !.parseError = TRUE]
          ELSE ScanSessionLenient(Tail(lines),
                 [acc EXCEPT
                    !.key = IF IsString(line.json.session_id)
                            THEN line.json.session_id ELSE @,
                    !.hasResult = @ \/ line.json.type = "result",
                    !.resultStatus = IF line.json.type = "result" THEN "success" ELSE @])

RECURSIVE ScanSession(_, _)
ScanSession(lines, acc) ==
  IF lines = <<>> THEN acc
  ELSE LET line == Head(lines)
       IN IF ~isLikelyJsonObjectLine(line)
          THEN ScanSession(Tail(lines),
                           [acc EXCEPT !.diagnostics = Append(@, line)])
          ELSE IF ~line.parses
          THEN [acc EXCEPT !.parseError = TRUE]
          ELSE ScanSession(Tail(lines),
                 [acc EXCEPT
                    !.key = IF IsString(line.json.session_id)
                            THEN line.json.session_id ELSE @,
                    !.hasResult = @ \/ line.json.type = "result",
                    !.resultStatus = IF line.json.type = "result" /\ IsString(line.json.status)
                                     THEN line.json.status ELSE @])

\* a pass that goes on after a line that does not parse
RECURSIVE ScanThreadSkipsMalformed(_, _)
ScanThreadSkipsMalformed(lines, acc) ==
  IF lines = <<>> THEN acc
  ELSE LET line == Head(lines)
       IN IF ~isLikelyJsonObjectLine(line)
          THEN ScanThreadSkipsMalformed(Tail(lines),
                                        [acc EXCEPT !.diagnostics = Append(@, line)])
          ELSE IF ~line.parses
          THEN ScanThreadSkipsMalformed(Tail(lines), acc)
          ELSE LET started == IF line.json.type = "thread.started"
                                 /\ IsString(line.json.thread_id)
                              THEN line.json.thread_id ELSE acc.key
                   key == IF ~Truthy(started) /\ IsString(line.json.thread_id)
                          THEN line.json.thread_id ELSE started
               IN ScanThreadSkipsMalformed(Tail(lines), [acc EXCEPT !.key = key])

\* the post-run pass of CodexAdapter.run over stdout
RECURSIVE ScanThread(_, _)
ScanThread(lines, acc) ==
  IF lines = <<>> THEN acc
  ELSE LET line == Head(lines)
       IN IF ~isLikelyJsonObjectLine(line)
          THEN ScanThread(Tail(lines), [acc EXCEPT !.diagnostics = Append(@, line)])
          ELSE IF ~line.parses
          THEN [acc EXCEPT !.parseError = TRUE]
          ELSE LET started == IF line.json.type = "thread.started"
                                 /\ IsString(line.json.thread_id)
                              THEN line.json.thread_id ELSE acc.key
                   key == IF ~Truthy(started) /\ IsString(line.json.thread_id)
                          THEN line.json.thread_id ELSE started
               IN ScanThread(Tail(lines), [acc EXCEPT !.key = key])

SessionKey(key) == [session_id |-> key, thread_id |-> NoKey]

ThreadKey(key) == [session_id |-> NoKey, thread_id |-> key]

\* ClaudeAdapter.run after runner.run settled
ClaudeResult(reply) ==
  IF reply.kind = "error"
  THEN AdapterResult(FALSE, "E_CLI_EXIT_NONZERO", EmptyAdapterState, <<>>, <<>>, <<>>)
  ELSE IF reply.timedOut
  THEN AdapterResult(FALSE, "E_CLI_TIMEOUT", EmptyAdapterState, <<>>,
                     reply.stdoutLines, reply.stderrLines)
  ELSE LET scan == ScanSession(reply.stdoutLines, NoScan)
       IN IF scan.parseError
          THEN AdapterResult(FALSE, "E_ADAPTER_PARSE", EmptyAdapterState, scan.diagnostics,
                             reply.stdoutLines, reply.stderrLines)
          ELSE IF reply.exitCode # 0
          THEN AdapterResult(FALSE, "E_CLI_EXIT_NONZERO",
                             IF Truthy(scan.key) THEN SessionKey(scan.key)
                             ELSE EmptyAdapterState,
                             scan.diagnostics, reply.stdoutLines, reply.stderrLines)
          ELSE IF ~Truthy(scan.key)
          THEN AdapterResult(FALSE, "E_ADAPTER_SESSION_KEY_MISSING", EmptyAdapterState,
                             scan.diagnostics, reply.stdoutLines, reply.stderrLines)
          ELSE AdapterResult(TRUE, "none", SessionKey(scan.key), scan.diagnostics,
                             reply.stdoutLines, reply.stderrLines)

\* CodexAdapter.run after runner.run settled
CodexResult(reply) ==
  IF reply.kind = "error"
  THEN AdapterResult(FALSE, "E_CLI_EXIT_NONZERO", EmptyAdapterState, <<>>, <<>>, <<>>)
  ELSE IF reply.timedOut
  THEN AdapterResult(FALSE, "E_CLI_TIMEOUT", EmptyAdapterState, <<>>,
                     reply.stdoutLines, reply.stderrLines)
  ELSE LET scan == ScanThread(reply.stdoutLines, NoScan)
       IN IF scan.parseError
          THEN AdapterResult(FALSE, "E_ADAPTER_PARSE", EmptyAdapterState, scan.diagnostics,
                             reply.stdoutLines, reply.stderrLines)
          ELSE IF reply.exitCode # 0
          THEN AdapterResult(FALSE, "E_CLI_EXIT_NONZERO",
                             IF Truthy(scan.key) THEN ThreadKey(scan.key)
                             ELSE EmptyAdapterState,
                             scan.diagnostics, reply.stdoutLines, reply.stderrLines)
          ELSE IF ~Truthy(scan.key)
          THEN AdapterResult(FALSE, "E_ADAPTER_SESSION_KEY_MISSING", EmptyAdapterState,
                             scan.diagnostics, reply.stdoutLines, reply.stderrLines)
          ELSE AdapterResult(TRUE, "none", ThreadKey(scan.key), scan.diagnostics,
                             reply.stdoutLines, reply.stderrLines)

\* a test that asks for another turn after every first nonzero exit
GeminiRetriesAnyFailure(reply, scan, attempt) ==
  /\ reply.exitCode # 0
  /\ attempt = 1

\* the transient-error test of GeminiAdapter.run (lines 217-221)
GeminiRetries(reply, scan, attempt) ==
  /\ reply.exitCode # 0
  /\ attempt = 1
  /\ hasTransientErrorHint(reply.stdoutLines \o reply.stderrLines \o scan.diagnostics)

\* one turn of the loop of GeminiAdapter.run after runner.run settled: either
\* the loop continues (again) or the run returns a result
GeminiTurn(reply, attempt) ==
  LET Return(r) == [again |-> FALSE, result |-> r]
  IN IF reply.kind = "error"
     THEN Return(AdapterResult(FALSE, "E_CLI_EXIT_NONZERO", EmptyAdapterState, <<>>, <<>>, <<>>))
     ELSE IF reply.timedOut
     THEN Return(AdapterResult(FALSE, "E_CLI_TIMEOUT", EmptyAdapterState, <<>>,
                               reply.stdoutLines, reply.stderrLines))
     ELSE LET scan == ScanSession(reply.stdoutLines, NoScan)
              kept == IF Truthy(scan.key) THEN SessionKey(scan.key) ELSE EmptyAdapterState
              Fail(code, st) == Return(AdapterResult(FALSE, code, st, scan.diagnostics,
                                                     reply.stdoutLines, reply.stderrLines))
          IN IF scan.parseError THEN Fail("E_ADAPTER_PARSE", EmptyAdapterState)
             ELSE IF reply.exitCode # 0
             THEN IF GeminiRetries(reply, scan, attempt)
                  THEN [again |-> TRUE, result |-> Unused]
                  ELSE Fail("E_CLI_EXIT_NONZERO", kept)
             ELSE IF ~scan.hasResult THEN Fail("E_ADAPTER_MISSING_RESULT", kept)
             ELSE IF scan.resultStatus # "success" THEN Fail("E_CLI_EXIT_NONZERO", kept)
             ELSE IF ~Truthy(scan.key)
             THEN Fail("E_ADAPTER_SESSION_KEY_MISSING", EmptyAdapterState)
             ELSE Return(AdapterResult(TRUE, "none", SessionKey(scan.key), scan.diagnostics,
                                       reply.stdoutLines, reply.stderrLines))

\* buildArgs of the three adapters
buildArgs(tool, input) ==
  CASE tool = "claude" ->
         <<"-p", "--dangerously-skip-permissions", "--verbose", "--output-format",
           "stream-json">>
         \o (IF Truthy(input.resumeKey) THEN <<"-r", input.resumeKey>> ELSE <<>>)
         \o <<input.prompt>>
    [] tool = "codex" ->
         IF Truthy(input.resumeKey)
         THEN <<"exec", "--dangerously-bypass-approvals-and-sandbox", "resume",
                input.resumeKey, "--json", input.prompt>>
         ELSE <<"exec", "--dangerously-bypass-approvals-and-sandbox", "--json",
                input.prompt>>
    [] tool = "gemini" ->
         <<"-p", input.prompt, "--output-format", "stream-json">>
         \o (IF Truthy(input.resumeKey) THEN <<"--resume", input.resumeKey>> ELSE <<>>)

\* what was seen of a reply: how the command ended, whether its output
\* carries a transient-error hint, and whether it does so outside the stdout
\* lines that are diagnostics
Observed(reply) ==
  IF reply.kind = "error"
  THEN [kind |-> "error", exitCode |-> 1, timedOut |-> FALSE, hinted |-> FALSE,
        hintedEvents |-> FALSE]
  ELSE [kind |-> "result", exitCode |-> reply.exitCode, timedOut |-> reply.timedOut,
        hinted |-> hasTransientErrorHint(reply.stdoutLines \o reply.stderrLines),
        hintedEvents |->
          hasTransientErrorHint(SelectSeq(reply.stdoutLines, isLikelyJsonObjectLine)
                                \o reply.stderrLines)]

\* an adapter about to run: nothing requested from the runner yet
NewRun(tool, input) ==
  [tool |-> tool, input |-> input, pc |-> "ready", attempt |-> 0, requests |-> <<>>,
   reply |-> Unused, failedReply |-> Unused, result |-> Unused]

\* a run that received `reply` to one more request and returns `result`
\* (failedReply is history: what was seen of the reply that made the loop go
\* round, kept until the run returns)
Returned(run, reply, result) ==
  [run EXCEPT !.pc = "done", !.requests = Append(@, buildArgs(run.tool, run.input)),
              !.reply = reply, !.failedReply = Unused, !.result = result]

\* ClaudeAdapter.run
ClaudeRun ==
  /\ adapterRun.tool = "claude"
  /\ adapterRun.pc = "ready"
  /\ \E reply \in Replies(SessionLines) :
       adapterRun' = Returned(adapterRun, reply, ClaudeResult(reply))
  /\ UNCHANGED <<engine, scheduler, probe>>

\* CodexAdapter.run
CodexRun ==
  /\ adapterRun.tool = "codex"
  /\ adapterRun.pc = "ready"
  /\ \E reply \in Replies(ThreadLines) :
       adapterRun' = Returned(adapterRun, reply, CodexResult(reply))
  /\ UNCHANGED <<engine, scheduler, probe>>

\* GeminiAdapter.run: the run after one turn of its loop that received `reply`
GeminiStep(run, reply) ==
  LET turn == GeminiTurn(reply, run.attempt + 1)
  IN IF turn.again
     THEN [run EXCEPT !.pc = "retrying", !.attempt = @ + 1,
                      !.requests = Append(@, buildArgs("gemini", run.input)),
                      !.failedReply = Observed(reply)]
     ELSE [Returned(run, reply, turn.result) EXCEPT !.attempt = @ + 1]

\* GeminiAdapter.run: one turn of its loop; after a second turn that asked for
\* another the loop ends with "retry exhausted"
GeminiRun ==
  /\ adapterRun.tool = "gemini"
  /\ adapterRun.pc \in {"ready", "retrying"}
  /\ IF adapterRun.attempt < 2
     THEN \E reply \in Replies(SessionLines) : adapterRun' = GeminiStep(adapterRun, reply)
     ELSE adapterRun' =
            [adapterRun EXCEPT
               !.pc = "done",
               !.result = AdapterResult(FALSE, "E_CLI_EXIT_NONZERO", EmptyAdapterState,
                                        <<>>, <<>>, <<>>)]
  /\ UNCHANGED <<engine, scheduler, probe>>

\* the stdout lines of the command a job runs: a diagnostic carrying a hint
\* and an event carrying the key of the tool (with status success)
JobLines(tool) ==
  IF tool = "codex"
  THEN {HintLine, EventLine("thread.started", Absent, "t1", Absent, <<>>)}
  ELSE {HintLine, EventLine("result", "s1", Absent, "success", <<>>)}

\* the runs adapter.run(input) of `tool` can return, the command printing at
\* most n stdout lines per invocation
Runs(tool, input, n) ==
  LET replies == RepliesUpTo(JobLines(tool), n)
      first == NewRun(tool, input)
  IN CASE tool = "claude" -> {Returned(first, r, ClaudeResult(r)) : r \in replies}
       [] tool = "codex" -> {Returned(first, r, CodexResult(r)) : r \in replies}
       [] tool = "gemini" ->
            LET turns == {GeminiStep(first, r) : r \in replies}
            IN {run \in turns : run.pc = "done"}
               \cup UNION {{GeminiStep(run, r) : r \in replies} :
                             run \in {x \in turns : x.pc = "retrying"}}

\* a processJob that reports every failed run as E_CLI_EXIT_NONZERO
AdapterRunsOneCode(t, n) ==
  /\ UpOnly
  /\ tasks[t].pc = "adapter"
  /\ LET j == tasks[t].job
         who == Who("task", t, j, <<>>)
         input == [prompt |-> "hi", resumeKey |-> tasks[t].resumeKey]
     IN \E run \in Runs(tasks[t].tool, input, n) :
          /\ adapterRun' = run
          /\ appendQ' = Append(appendQ,
               IF run.result.ok
               THEN Request("JobCompleted",
                      [thread_id |-> t, job_id |-> j, result_excerpt |-> "done",
                       adapter_state |-> run.result.adapterState], who)
               ELSE Request("JobFailed",
                      [thread_id |-> t, job_id |-> j, error_code |-> "E_CLI_EXIT_NONZERO",
                       adapter_state |-> run.result.adapterState], who))
  /\ tasks' = [tasks EXCEPT ![t].pc = "appendEnd"]
  /\ UNCHANGED <<state, log, snapshot, clock, phase, crashes, projects, idCounter,
                 runningThreads, kicking, ret, marked, scheduler, probe>>

\* processJob from adapter.run to its final append (lines 208-241): the adapter
\* of the job's tool runs the command, the job log is written, and the result
\* is appended as JobCompleted or JobFailed
AdapterRuns(t, n) ==
  /\ UpOnly
  /\ tasks[t].pc = "adapter"
  /\ LET j == tasks[t].job
         who == Who("task", t, j, <<>>)
         input == [prompt |-> "hi", resumeKey |-> tasks[t].resumeKey]
     IN \E run \in Runs(tasks[t].tool, input, n) :
          /\ adapterRun' = run
          /\ appendQ' = Append(appendQ,
               IF run.result.ok
               THEN Request("JobCompleted",
                      [thread_id |-> t, job_id |-> j, result_excerpt |-> "done",
                       adapter_state |-> run.result.adapterState], who)
               ELSE Request("JobFailed",
                      [thread_id |-> t, job_id |-> j, error_code |-> run.result.errorCode,
                       adapter_state |-> run.result.adapterState], who))
  /\ tasks' = [tasks EXCEPT ![t].pc = "appendEnd"]
  /\ UNCHANGED <<state, log, snapshot, clock, phase, crashes, projects, idCounter,
                 runningThreads, kicking, ret, marked, scheduler, probe>>

\* the log after createProject and one awaited startSession per thread of ths
RECURSIVE SetupLog(_, _)
SetupLog(ths, tool) ==
  IF ths = <<>> THEN <<Envelope(1, 1, "ProjectCreated", [project_name |-> ProjectName])>>
  ELSE LET before == SetupLog(SubSeq(ths, 1, Len(ths) - 1), tool)
       IN Append(before,
                 Envelope(Len(before) + 1, Len(before) + 1, "SessionCreated",
                          [thread_id |-> ths[Len(ths)], project_name |-> ProjectName,
                           tool |-> tool, adapter_state |-> EmptyAdapterState]))

\* the process right after construction (index.ts main): nothing on disk
Init ==
  InitWith(<<>>, {})

\* the process with a project and the sessions of `ths` created and awaited
InitStarted(ths) ==
  InitWith(SetupLog(ths, "gemini"), {ProjectName})

\* The process from construction: two threads, one tool, the owner's calls
SpecThreads == {"ta", "tb"}

Next ==
  \/ createProject("owner")
  \/ \E t \in SpecThreads : startSession("owner", t, "gemini", MaxSessionEvents)
  \/ \E t \in SpecThreads, m \in 1..MaxMsgs : enqueueThreadMessage("owner", t, m, MaxJobs)
  \/ \E j \in 1..MaxJobs : retryJob("owner", j, MaxJobs)
  \/ AppendDone(FALSE)
  \/ Kick
  \/ \E t \in Threads : TaskLookup(t)
  \/ \E t \in Threads, ok \in BOOLEAN : AdapterReturns(t, ok)
  \/ \E t \in Threads : TaskFinished(t)
  \/ \E t \in Threads : TaskThrows(t)

Spec == Init /\ [][Next]_vars

\* Engine: three threads with their sessions started; messages arrive, jobs
\* run, fail, throw and are retried.  No restart.
CapThreads == <<"ta", "tb", "tc">>

InitCap == InitStarted(CapThreads)

NextCap ==
  \/ \E t \in Threads : enqueueThreadMessage("owner", t, 1, CapJobs)
  \/ \E j \in 1..CapJobs : retryJob("owner", j, CapJobs)
  \/ AppendDone(FALSE)
  \/ Kick
  \/ \E t \in Threads : TaskLookup(t)
  \/ \E t \in Threads, ok \in BOOLEAN : AdapterReturns(t, ok)
  \/ \E t \in Threads : TaskFinished(t)
  \/ \E t \in Threads : TaskThrows(t)

SpecCap == InitCap /\ [][NextCap]_vars

\* Restart: two started threads; jobs run to success or throw, the snapshot
\* is flushed, the process crashes and starts again (open, recover, serve)
StoreThreads == <<"ta", "tb">>

InitStore == InitStarted(StoreThreads)

NextStore ==
  \/ \E i \in 1..Len(StoreThreads) :
       enqueueThreadMessage("owner", StoreThreads[i], 1, StoreJobs)
  \/ AppendDone(FALSE)
  \/ Kick
  \/ \E t \in Threads : TaskLookup(t)
  \/ \E t \in Threads : AdapterReturns(t, TRUE)
  \/ \E t \in Threads : TaskFinished(t)
  \/ \E t \in Threads : TaskThrows(t)
  \/ flushSnapshot
  \/ Crash(MaxCrashes)
  \/ Open
  \/ Recover(FALSE)
  \/ Serve

SpecStore == InitStore /\ [][NextStore]_vars

\* Retry: one started thread; its jobs succeed, fail or throw and are retried,
\* the snapshot is flushed, the process crashes and starts again
InitRetry == InitStarted(<<"ta">>)

NextRetry ==
  \/ enqueueThreadMessage("owner", "ta", 1, RetryJobs)
  \/ \E j \in 1..RetryJobs : retryJob("owner", j, RetryJobs)
  \/ AppendDone(FALSE)
  \/ Kick
  \/ TaskLookup("ta")
  \/ \E ok \in BOOLEAN : AdapterReturns("ta", ok)
  \/ TaskFinished("ta")
  \/ TaskThrows("ta")
  \/ flushSnapshot
  \/ Crash(MaxCrashes)
  \/ Open
  \/ Recover(FALSE)
  \/ Serve

SpecRetry == InitRetry /\ [][NextRetry]_vars

\* Damaged log: one started thread runs jobs and flushes snapshots; while the
\* process is down a line of events.ndjson is lost or written twice, then the
\* process is started again and replays
InitReplay == InitStarted(<<"ta">>)

\* events.ndjson is intact: line i carries seq i
Intact(events) == \A i \in 1..Len(events) : events[i].seq = i

\* events without line i
DropLine(events, i) == SubSeq(events, 1, i - 1) \o SubSeq(events, i + 1, Len(events))

\* events with line i written twice
RepeatLine(events, i) == SubSeq(events, 1, i) \o SubSeq(events, i, Len(events))

\* the file is damaged while the process is down
Damage ==
  /\ phase = "down"
  /\ Intact(log)
  /\ \E i \in 1..Len(log) : log' \in {DropLine(log, i), RepeatLine(log, i)}
  /\ UNCHANGED <<state, snapshot, appendQ, clock, phase, crashes, projects, idCounter,
                 runningThreads, tasks, kicking, ret, marked, bench>>

NextReplay ==
  \/ \E m \in 1..ReplayJobs : enqueueThreadMessage("owner", "ta", m, ReplayJobs)
  \/ AppendDone(FALSE)
  \/ Kick
  \/ TaskLookup("ta")
  \/ AdapterReturns("ta", TRUE)
  \/ TaskFinished("ta")
  \/ flushSnapshot
  \/ Crash(MaxCrashes)
  \/ Damage
  \/ Open

SpecReplay == InitReplay /\ [][NextReplay]_vars

\* Tool switch: one started thread (tool gemini); new messages arrive, the
\* owner switches the tool, jobs run
InitTool == InitStarted(<<"ta">>)

NextTool ==
  \/ enqueueThreadMessage("owner", "ta", idCounter + 1, ToolJobs)
  \/ \E tool \in Tools : changeTool("owner", "ta", tool, MaxToolChanges)
  \/ AppendDone(FALSE)
  \/ Kick
  \/ TaskLookup("ta")
  \/ AdapterReturns("ta", TRUE)
  \/ TaskFinished("ta")

SpecTool == InitTool /\ [][NextTool]_vars

\* Owner check: the process from construction; the owner and a stranger call
\* every operation of the service on one thread while jobs run
NextOwner ==
  \/ \E u \in Users : createProject(u)
  \/ \E u \in Users : listProjects(u)
  \/ \E u \in Users : projectStatus(u)
  \/ \E u \in Users : startSession(u, "ta", "gemini", OwnerSessions)
  \/ \E u \in Users : listSessions(u)
  \/ \E u \in Users : openSession(u, "ta")
  \/ \E u \in Users : status(u, "ta")
  \/ \E u \in Users : enqueueThreadMessage(u, "ta", 1, OwnerJobs)
  \/ \E u \in Users, j \in 1..OwnerJobs : retryJob(u, j, OwnerJobs)
  \/ \E u \in Users : changeTool(u, "ta", "codex", OwnerSessions)
  \/ AppendDone(FALSE)
  \/ Kick
  \/ TaskLookup("ta")
  \/ AdapterReturns("ta", FALSE)
  \/ TaskFinished("ta")

SpecOwner == Init /\ [][NextOwner]_vars

\* Idle: one started thread; new messages arrive for a while, jobs run and
\* succeed, fail or throw, and a caller waits for the coordinator to be idle.
\* Every step of the store, the run loop, a processJob and the waiting
\* caller is eventually taken; adapters return; nothing forces a throw or a
\* new message
InitLive == InitStarted(<<"ta">>)

NextLive ==
  \/ enqueueThreadMessage("owner", "ta", idCounter + 1, LiveJobs)
  \/ AppendDone(FALSE)
  \/ Kick
  \/ TaskLookup("ta")
  \/ \E ok \in BOOLEAN : AdapterReturns("ta", ok)
  \/ TaskFinished("ta")
  \/ TaskThrows("ta")
  \/ waitForIdle

SpecLive ==
  /\ InitLive
  /\ [][NextLive]_vars
  /\ WF_vars(AppendDone(FALSE))
  /\ WF_vars(Kick)
  /\ WF_vars(TaskLookup("ta"))
  /\ WF_vars(\E ok \in BOOLEAN : AdapterReturns("ta", ok))
  /\ WF_vars(TaskFinished("ta"))
  /\ WF_vars(waitForIdle)

\* Adapters: each of the three adapters runs once on what its command line
\* can produce: a spawn error, a timeout, an exit code, stdout and stderr lines
AdapterTools == {"claude", "codex", "gemini"}

AdapterInputs == {[prompt |-> "hi", resumeKey |-> NoKey]}

InitAdapter ==
  /\ InitEngine(<<>>, {})
  /\ scheduler = Unused
  /\ probe = Unused
  /\ adapterRun \in {NewRun(tool, input) : tool \in AdapterTools, input \in AdapterInputs}

NextAdapter ==
  \/ ClaudeRun
  \/ CodexRun
  \/ GeminiRun

SpecAdapter == InitAdapter /\ [][NextAdapter]_vars

\* Jobs: one started thread of each tool in turn; messages arrive in order,
\* each job runs the adapter of its tool on what the command can produce
InitJob ==
  \E tool \in AdapterTools :
    /\ InitEngine(SetupLog(<<"ta">>, tool), {ProjectName})
    /\ adapterRun = Unused
    /\ scheduler = Unused
    /\ probe = Unused

NextJob ==
  \/ enqueueThreadMessage("owner", "ta", idCounter + 1, JobJobs)
  \/ AppendDone(FALSE)
  \/ Kick
  \/ TaskLookup("ta")
  \/ AdapterRuns("ta", JobMaxLines)
  \/ TaskFinished("ta")

SpecJob == InitJob /\ [][NextJob]_vars

(***************************************************************************)
(* SessionQueueScheduler (src/src/queue/session-queue.ts)                  *)
(*                                                                         *)
(* Thread and message ids are strings, written as sequences of characters  *)
(* so that the dedupe key is the concatenation the code builds.  The       *)
(* variable scheduler holds the fields of the object and the last call     *)
(* with what it returned.                                                  *)
(***************************************************************************)
JsNull == "null"

Thrown == "throws"

\* job ids handed to the scheduler; "" is a string like any other
SchedJobIds == {"", "j1", "j2"}

SchedThreads == {<<"a">>, <<"a", ":", "b">>}

SchedMsgs == {<<"c">>, <<"b", ":", "c">>}

Call(op, threadId, jobId, returned) ==
  [op |-> op, threadId |-> threadId, jobId |-> jobId, returned |-> returned]

\* new SessionQueueScheduler({ globalMaxRunning })
NewScheduler(globalMaxRunning) ==
  [globalMaxRunning |-> globalMaxRunning, sessions |-> <<>>, dedupe |-> <<>>,
   runningTotal |-> 0, call |-> Call("new", <<>>, Absent, Absent)]

\* a method that threw: only the call is recorded
Throwing(sch, op, threadId, jobId) ==
  [sch EXCEPT !.call = Call(op, threadId, jobId, Thrown)]

ensureSession(sch, threadId) ==
  [sch EXCEPT
     !.sessions = IF Has(@, threadId) THEN @
                  ELSE Put(@, threadId, [queue |-> <<>>, running |-> JsNull]),
     !.call = Call("ensureSession", threadId, Absent, Absent)]

enqueue(sch, threadId, jobId) ==
  IF ~Has(sch.sessions, threadId) THEN Throwing(sch, "enqueue", threadId, jobId)
  ELSE [sch EXCEPT !.sessions[threadId].queue = Append(@, jobId),
                   !.call = Call("enqueue", threadId, jobId, Absent)]

\* a startNext that does not look at runningTotal
startNextNoCap(sch, threadId) ==
  LET Returns(v) == Call("startNext", threadId, Absent, v)
  IN IF ~Has(sch.sessions, threadId) THEN Throwing(sch, "startNext", threadId, Absent)
     ELSE LET session == sch.sessions[threadId]
          IN IF session.running # JsNull THEN [sch EXCEPT !.call = Returns(JsNull)]
             ELSE IF session.queue = <<>> THEN [sch EXCEPT !.call = Returns(JsNull)]
             ELSE IF Head(session.queue) = ""
             THEN [sch EXCEPT !.sessions[threadId].queue = Tail(@),
                              !.call = Returns(JsNull)]
             ELSE [sch EXCEPT !.sessions[threadId].queue = Tail(@),
                              !.sessions[threadId].running = Head(session.queue),
                              !.runningTotal = @ + 1,
                              !.call = Returns(Head(session.queue))]

\* startNext: queue.shift() comes before the test of what it returned, so a
\* head that is "" is removed and null returned
startNext(sch, threadId) ==
  LET Returns(v) == Call("startNext", threadId, Absent, v)
  IN IF ~Has(sch.sessions, threadId) THEN Throwing(sch, "startNext", threadId, Absent)
     ELSE LET session == sch.sessions[threadId]
          IN IF session.running # JsNull THEN [sch EXCEPT !.call = Returns(JsNull)]
             ELSE IF sch.runningTotal >= sch.globalMaxRunning
             THEN [sch EXCEPT !.call = Returns(JsNull)]
             ELSE IF session.queue = <<>> THEN [sch EXCEPT !.call = Returns(JsNull)]
             ELSE IF Head(session.queue) = ""
             THEN [sch EXCEPT !.sessions[threadId].queue = Tail(@),
                              !.call = Returns(JsNull)]
             ELSE [sch EXCEPT !.sessions[threadId].queue = Tail(@),
                              !.sessions[threadId].running = Head(session.queue),
                              !.runningTotal = @ + 1,
                              !.call = Returns(Head(session.queue))]

finishRunning(sch, threadId, jobId) ==
  IF ~Has(sch.sessions, threadId) THEN Throwing(sch, "finishRunning", threadId, jobId)
  ELSE IF sch.sessions[threadId].running # jobId
  THEN Throwing(sch, "finishRunning", threadId, jobId)
  ELSE [sch EXCEPT !.sessions[threadId].running = JsNull,
                   !.runningTotal = @ - 1,
                   !.call = Call("finishRunning", threadId, jobId, Absent)]

\* the key `${threadId}:${discordMessageId}`
SchedulerKey(threadId, discordMessageId) == threadId \o <<":">> \o discordMessageId

\* a registerDedupe that overwrites the entry of a known key
registerDedupeLastWins(sch, threadId, discordMessageId, jobId) ==
  LET key == SchedulerKey(threadId, discordMessageId)
  IN [sch EXCEPT !.dedupe = Put(@, key, jobId),
                 !.call = Call("registerDedupe", key, jobId,
                               IF Has(sch.dedupe, key) THEN "false" ELSE "true")]

registerDedupe(sch, threadId, discordMessageId, jobId) ==
  LET key == SchedulerKey(threadId, discordMessageId)
  IN IF Has(sch.dedupe, key)
     THEN [sch EXCEPT !.call = Call("registerDedupe", key, jobId, "false")]
     ELSE [sch EXCEPT !.dedupe = Put(@, key, jobId),
                      !.call = Call("registerDedupe", key, jobId, "true")]

lookupDedupe(sch, threadId, discordMessageId) ==
  LET key == SchedulerKey(threadId, discordMessageId)
  IN [sch EXCEPT !.call = Call("lookupDedupe", key, Absent,
                               IF Has(sch.dedupe, key) THEN sch.dedupe[key] ELSE Absent)]

\* a call of a method of the scheduler
Calls(next) ==
  /\ scheduler' = next
  /\ UNCHANGED <<engine, adapterRun, probe>>

CallEnsureSession ==
  \E t \in SchedThreads : Calls(ensureSession(scheduler, t))

CallEnqueue(maxQueue) ==
  \E t \in SchedThreads, j \in SchedJobIds :
    /\ Has(scheduler.sessions, t) => Len(scheduler.sessions[t].queue) < maxQueue
    /\ Calls(enqueue(scheduler, t, j))

CallStartNext ==
  \E t \in SchedThreads : Calls(startNext(scheduler, t))

CallFinishRunning ==
  \E t \in SchedThreads, j \in SchedJobIds : Calls(finishRunning(scheduler, t, j))

CallRegisterDedupe ==
  \E t \in SchedThreads, m \in SchedMsgs, j \in SchedJobIds :
    Calls(registerDedupe(scheduler, t, m, j))

CallLookupDedupe ==
  \E t \in SchedThreads, m \in SchedMsgs : Calls(lookupDedupe(scheduler, t, m))

\* Scheduler: a new scheduler with a cap of 1..SchedMaxRunning; sessions are
\* created, jobs queued, started and finished in any order
InitScheduler ==
  /\ InitEngine(<<>>, {})
  /\ adapterRun = Unused
  /\ probe = Unused
  /\ \E g \in 1..SchedMaxRunning : scheduler = NewScheduler(g)

NextScheduler ==
  \/ CallEnsureSession
  \/ CallEnqueue(SchedMaxQueue)
  \/ CallStartNext
  \/ CallFinishRunning

SpecScheduler == InitScheduler /\ [][NextScheduler]_vars

\* Dedupe: keys are registered and looked up on a new scheduler
InitDedupe ==
  /\ InitEngine(<<>>, {})
  /\ adapterRun = Unused
  /\ probe = Unused
  /\ scheduler = NewScheduler(1)

NextDedupe ==
  \/ CallRegisterDedupe
  \/ CallLookupDedupe

SpecDedupe == InitDedupe /\ [][NextDedupe]_vars

(***************************************************************************)
(* deriveSessionState (src/src/queue/session-queue.ts lines 12-33) and the *)
(* part of AgentService.status that uses it (agent-service.ts 201-213).    *)
(* The variable probe holds the arguments of a call and what it returned.  *)
(***************************************************************************)
\* lastJob === undefined
UndefinedJob == [job_id |-> Null, state |-> "undefined"]

JobStateNames == {"queued", "running", "success", "failed", "unknown_after_crash"}

\* a derivation that looks at the queue first
deriveSessionStateQueueFirst(session, lastJob) ==
  IF session.queue # <<>> THEN "queued"
  ELSE IF session.running_job_id # Null THEN "running"
  ELSE IF lastJob.state = "unknown_after_crash" THEN "unknown_after_crash"
  ELSE IF lastJob.state = "failed" THEN "failed"
  ELSE "idle"

deriveSessionState(session, lastJob) ==
  IF session.running_job_id # Null THEN "running"
  ELSE IF session.queue # <<>> THEN "queued"
  ELSE IF lastJob.state = "unknown_after_crash" THEN "unknown_after_crash"
  ELSE IF lastJob.state = "failed" THEN "failed"
  ELSE "idle"

\* status, lines 201-202: the job last_job_id names, when there is one
LastJobOf(session, jobs) ==
  IF session.last_job_id # Null /\ Has(jobs, session.last_job_id)
  THEN jobs[session.last_job_id]
  ELSE UndefinedJob

NoHint == [given |-> FALSE, job_id |-> Null]

\* status, lines 210-213: "/retry <job_id>" or "n/a"
retryHint(lastJob) ==
  IF lastJob # UndefinedJob /\ lastJob.state \in {"failed", "unknown_after_crash"}
  THEN [given |-> TRUE, job_id |-> lastJob.job_id]
  ELSE NoHint

\* the sessions and job tables the calls are made on
ProbeSessions(n) ==
  {[running_job_id |-> r, queue |-> q, last_job_id |-> l] :
     r \in {Null, 1, 2}, q \in SeqsUpTo({1, 2}, n), l \in {Null, 1}}

ProbeJobs ==
  {<<>>} \cup {<<[job_id |-> 1, state |-> st]>> : st \in JobStateNames}

NewProbe(session, jobs) ==
  [session |-> session, jobs |-> jobs, op |-> "none", lastJob |-> UndefinedJob,
   derived |-> "none", hint |-> NoHint]

\* deriveSessionState(session, lastJob) called on its own
CallDerive ==
  /\ probe.op = "none"
  /\ \E lastJob \in {UndefinedJob} \cup {[job_id |-> 2, state |-> st] : st \in JobStateNames} :
       probe' = [probe EXCEPT !.op = "derive", !.lastJob = lastJob,
                              !.derived = deriveSessionState(probe.session, lastJob)]
  /\ UNCHANGED <<engine, adapterRun, scheduler>>

\* status() from the lookup of lastJob to state and retry_hint
CallStatus ==
  /\ probe.op = "none"
  /\ LET lastJob == LastJobOf(probe.session, probe.jobs)
     IN probe' = [probe EXCEPT !.op = "status", !.lastJob = lastJob,
                               !.derived = deriveSessionState(probe.session, lastJob),
                               !.hint = retryHint(lastJob)]
  /\ UNCHANGED <<engine, adapterRun, scheduler>>

\* Derivation: one call on every session and job table within the bounds
InitDerive ==
  /\ InitEngine(<<>>, {})
  /\ adapterRun = Unused
  /\ scheduler = Unused
  /\ \E session \in ProbeSessions(ProbeQueue), jobs \in ProbeJobs :
       probe = NewProbe(session, jobs)

NextDerive ==
  \/ CallDerive
  \/ CallStatus

SpecDerive == InitDerive /\ [][NextDerive]_vars

(***************************************************************************)
(* Assistant text of the post-run pass: appendUnique                       *)
(* (src/src/adapters/codex-adapter.ts lines 27-37, config-store.ts lines   *)
(* 864-874) as used by the Claude and Codex adapters, and the accumulation *)
(* of parseGemini (src/unnamed/part_001 lines 126-135).  An event is       *)
(* described by the text its extractor returns ("" when there is none) and *)
(* by its member delta; assistantText is the list of parts before join.    *)
(***************************************************************************)
MaxChunks == 3

\* the events of a stream that may contribute assistant text
TextEvents == {[delta |-> d, text |-> x] : d \in {Absent, "", "a"}, x \in {"", "a", "b"}}

\* appendUnique(parts, text)
appendUnique(parts, text) ==
  IF text = "" THEN parts
  ELSE IF parts # <<>> /\ parts[Len(parts)] = text THEN parts
  ELSE Append(parts, text)

\* the loop of ClaudeAdapter.run and CodexAdapter.run over the events:
\* appendUnique(assistantParts, extract...AssistantText(parsed))
RECURSIVE UniqueParts(_, _)
UniqueParts(events, parts) ==
  IF events = <<>> THEN parts
  ELSE UniqueParts(Tail(events), appendUnique(parts, Head(events).text))

\* the loop of parseGemini over message events of role assistant: a string
\* delta is pushed as it is, otherwise the extracted text when not empty
RECURSIVE GeminiParts(_, _)
GeminiParts(events, parts) ==
  IF events = <<>> THEN parts
  ELSE LET e == Head(events)
       IN GeminiParts(Tail(events),
                      IF IsString(e.delta) THEN Append(parts, e.delta)
                      ELSE IF e.text # "" THEN Append(parts, e.text)
                      ELSE parts)

NewText(tool, events) == [tool |-> tool, events |-> events, done |-> FALSE, parts |-> <<>>]

\* the post-run pass of each adapter over the events of the stream
ClaudeText ==
  /\ probe.tool = "claude"
  /\ ~probe.done
  /\ probe' = [probe EXCEPT !.done = TRUE, !.parts = UniqueParts(probe.events, <<>>)]
  /\ UNCHANGED <<engine, adapterRun, scheduler>>

CodexText ==
  /\ probe.tool = "codex"
  /\ ~probe.done
  /\ probe' = [probe EXCEPT !.done = TRUE, !.parts = UniqueParts(probe.events, <<>>)]
  /\ UNCHANGED <<engine, adapterRun, scheduler>>

GeminiText ==
  /\ probe.tool = "gemini"
  /\ ~probe.done
  /\ probe' = [probe EXCEPT !.done = TRUE, !.parts = GeminiParts(probe.events, <<>>)]
  /\ UNCHANGED <<engine, adapterRun, scheduler>>

\* Assistant text: each adapter accumulates the text of every stream of at
\* most MaxChunks events
InitText ==
  /\ InitEngine(<<>>, {})
  /\ adapterRun = Unused
  /\ scheduler = Unused
  /\ \E tool \in AdapterTools, events \in SeqsUpTo(TextEvents, MaxChunks) :
       probe = NewText(tool, events)

NextText ==
  \/ ClaudeText
  \/ CodexText
  \/ GeminiText

SpecText == InitText /\ [][NextText]_vars

\* Kicks: two started threads; messages arrive in order on either thread,
\* the run loop is kicked by new work, by a caller waiting for idle, on its
\* own and by each processJob that ends; appends of a processJob may fail and
\* its later steps may throw
KickThreads == <<"ta", "tb">>

InitKick == InitStarted(KickThreads)

NextKick ==
  \/ \E i \in 1..Len(KickThreads) :
       enqueueThreadMessage("owner", KickThreads[i], idCounter + 1, KickJobs)
  \/ AppendDone(FALSE)
  \/ AppendFails
  \/ Kick
  \/ waitForIdle
  \/ \E t \in Threads : TaskLookup(t)
  \/ \E t \in Threads, ok \in BOOLEAN : AdapterReturns(t, ok)
  \/ \E t \in Threads : TaskFinished(t)
  \/ \E t \in Threads : TaskThrows(t)

SpecKick == InitKick /\ [][NextKick]_vars

\* Hooks: one thread whose session is in the event log, started with a
\* config.json that holds the project of the session or no longer holds it;
\* messages arrive in order, adapters return, hooks return
InitHooks ==
  \E projs \in {{ProjectName}, {}} : InitWith(SetupLog(<<"ta">>, "gemini"), projs)

NextHooks ==
  \/ enqueueThreadMessage("owner", "ta", idCounter + 1, HookJobs)
  \/ AppendDone(FALSE)
  \/ Kick
  \/ TaskLookup("ta")
  \/ \E ok \in BOOLEAN : AdapterReturns("ta", ok)
  \/ TaskFinished("ta")

SpecHooks == InitHooks /\ [][NextHooks]_vars

\* Fairness: three started threads and two slots; messages arrive in order
\* on any thread for a while, the owner may start a session again in thread
\* tc, adapters return and succeed, the process stays up and no append fails. Every
\* step of the store and of a processJob is eventually taken; the run loop
\* is kicked by new work and by each processJob that ends
FairThreads == <<"ta", "tb", "tc">>

InitFair == InitStarted(FairThreads)

NextFair ==
  \/ enqueueThreadMessage("owner", FairThreads[(idCounter % Len(FairThreads)) + 1],
                          idCounter + 1, FairJobs)
  \/ startSession("owner", "tc", "gemini", FairSessions)
  \/ AppendDone(FALSE)
  \/ \E t \in Threads : TaskLookup(t)
  \/ \E t \in Threads : AdapterReturns(t, TRUE)
  \/ \E t \in Threads : TaskFinished(t)

SpecFair ==
  /\ InitFair
  /\ [][NextFair]_vars
  /\ WF_vars(AppendDone(FALSE))
  /\ \A t \in Threads : WF_vars(TaskLookup(t))
  /\ \A t \in Threads : WF_vars(AdapterReturns(t, TRUE))
  /\ \A t \in Threads : WF_vars(TaskFinished(t))

(***************************************************************************)
(* SpawnCommandRunner (src/src/config/config-store.ts): the line buffer    *)
(***************************************************************************)
\* the bytes of a stream: a letter, carriage return, line feed
Bytes == {"a", "CR", "LF"}

\* chunk.split(/\r?\n/): the segments between line feeds, each line feed
\* taking the carriage return right before it; the last segment is the rest
RECURSIVE splitLines(_)
splitLines(chunk) ==
  IF \A i \in 1..Len(chunk) : chunk[i] # "LF" THEN <<chunk>>
  ELSE LET i == CHOOSE k \in 1..Len(chunk) :
                  chunk[k] = "LF" /\ \A m \in 1..(k - 1) : chunk[m] # "LF"
           seg == SubSeq(chunk, 1, i - 1)
           line == IF seg # <<>> /\ seg[Len(seg)] = "CR"
                   THEN SubSeq(seg, 1, Len(seg) - 1) ELSE seg
       IN <<line>> \o splitLines(SubSeq(chunk, i + 1, Len(chunk)))

\* a stream's buffer and the lines pushed and handed to the callback so far
NoLines == [buffer |-> <<>>, lines |-> <<>>]

\* a handler that splits the chunk and joins the buffer to its first segment
onDataSplitsChunk(st, data) ==
  LET segments == splitLines(data)
      first == st.buffer \o segments[1]
  IN IF Len(segments) = 1 THEN [buffer |-> first, lines |-> st.lines]
     ELSE [buffer |-> segments[Len(segments)],
           lines |-> st.lines \o <<first>> \o SubSeq(segments, 2, Len(segments) - 1)]

\* the "data" handler of a stream: the buffer grows by the chunk and is split;
\* the last segment stays in the buffer, the others are delivered
onData(st, data) ==
  LET segments == splitLines(st.buffer \o data)
  IN [buffer |-> segments[Len(segments)],
      lines |-> st.lines \o SubSeq(segments, 1, Len(segments) - 1)]

\* the "close" handler, for one stream: a non-empty buffer is delivered
onClose(st) ==
  IF Len(st.buffer) > 0 THEN [buffer |-> st.buffer, lines |-> Append(st.lines, st.buffer)]
  ELSE st

\* a stream of the child: what it writes in all, what is still to come, the
\* runner's buffer and lines, and whether a chunk ended between CR and LF
NewStream(bytes) ==
  [stream |-> bytes, rest |-> bytes, st |-> NoLines, cut |-> FALSE]

\* the next n bytes of the stream arrive as one chunk
Deliver(s, n) ==
  [stream |-> s.stream,
   rest |-> SubSeq(s.rest, n + 1, Len(s.rest)),
   st |-> onData(s.st, SubSeq(s.rest, 1, n)),
   cut |-> s.cut \/ (s.rest[n] = "CR" /\ n < Len(s.rest) /\ s.rest[n + 1] = "LF")]

StdoutData ==
  /\ ~probe.closed
  /\ \E n \in 1..Len(probe.out.rest) :
       probe' = [probe EXCEPT !.out = Deliver(@, n)]
  /\ UNCHANGED <<engine, adapterRun, scheduler>>

StderrData ==
  /\ ~probe.closed
  /\ \E n \in 1..Len(probe.err.rest) :
       probe' = [probe EXCEPT !.err = Deliver(@, n)]
  /\ UNCHANGED <<engine, adapterRun, scheduler>>

\* "close": both streams have ended
Close ==
  /\ ~probe.closed
  /\ probe.out.rest = <<>>
  /\ probe.err.rest = <<>>
  /\ probe' = [probe EXCEPT !.closed = TRUE,
                            !.out.st = onClose(@),
                            !.err.st = onClose(@)]
  /\ UNCHANGED <<engine, adapterRun, scheduler>>

\* Lines: one run of a command whose child writes at most MaxBytes bytes to
\* stdout and MaxErrBytes to stderr; each stream arrives in chunks of any size
InitLines ==
  /\ InitEngine(<<>>, {})
  /\ adapterRun = Unused
  /\ scheduler = Unused
  /\ \E o \in SeqsUpTo(Bytes, MaxBytes), e \in SeqsUpTo(Bytes, MaxErrBytes) :
       probe = [out |-> NewStream(o), err |-> NewStream(e), closed |-> FALSE]

NextLines ==
  \/ StdoutData
  \/ StderrData
  \/ Close

SpecLines == InitLines /\ [][NextLines]_vars

\* Selection: two threads whose sessions were started tb first, then ta;
\* messages arrive in order, two events may carry the same timestamp, jobs
\* run, the process crashes and starts again
PickThreads == <<"tb", "ta">>

InitPick == InitStarted(PickThreads)

NextPick ==
  \/ \E i \in 1..Len(PickThreads) :
       enqueueThreadMessage("owner", PickThreads[i], idCounter + 1, PickJobs)
  \/ AppendDone(TRUE)
  \/ Kick
  \/ \E i \in 1..Len(PickThreads) : TaskLookup(PickThreads[i])
  \/ \E i \in 1..Len(PickThreads) : AdapterReturns(PickThreads[i], TRUE)
  \/ \E i \in 1..Len(PickThreads) : TaskFinished(PickThreads[i])
  \/ Crash(MaxCrashes)
  \/ Open
  \/ Recover(TRUE)
  \/ Serve

SpecPick == InitPick /\ [][NextPick]_vars

\* Resume: one started thread; messages arrive in order, each job succeeds
\* (the adapter returns the key of the tool) or fails with an empty
\* adapterState
InitResume == InitStarted(<<"ta">>)

NextResume ==
  \/ enqueueThreadMessage("owner", "ta", idCounter + 1, ResumeJobs)
  \/ AppendDone(FALSE)
  \/ Kick
  \/ TaskLookup("ta")
  \/ \E ok \in BOOLEAN : AdapterReturns("ta", ok)
  \/ TaskFinished("ta")

SpecResume == InitResume /\ [][NextResume]_vars

\* Full queue: one started thread whose first job never returns from its
\* adapter while messages keep arriving in the order of their ids, several
\* of them at once; a message whose enqueue has returned may be delivered again
InitQueue == InitStarted(<<"ta">>)

\* the message ids delivered to thread t so far
Seen(t) ==
  {m \in 1..QueueJobs :
     \/ Existing(state, DedupeKey(t, ChatMsg(m)))
     \/ \E i \in 1..Len(appendQ) : appendQ[i].who.msg = ChatMsg(m)}

Max(S) == CHOOSE x \in S : \A y \in S : x >= y

Latest(t) == Max(Seen(t) \cup {0})

\* the next new message, or the latest one again once it is in the index
Arriving(t) ==
  {Latest(t) + 1} \cup {m \in {Latest(t)} : Existing(state, DedupeKey(t, ChatMsg(m)))}

NextQueue ==
  \/ \E m \in Arriving("ta") : enqueueThreadMessage("owner", "ta", m, QueueJobs)
  \/ AppendDone(FALSE)
  \/ Kick
  \/ TaskLookup("ta")

SpecQueue == InitQueue /\ [][NextQueue]_vars

(***************************************************************************)
(* Properties                                                              *)
(***************************************************************************)
Terminal(job) == job.state \in {"success", "failed", "unknown_after_crash"}

\* the jobs of thread t, in state st
JobsIn(s, t, st) == {j \in DOMAIN s.jobs : s.jobs[j].thread_id = t /\ s.jobs[j].state = st}

\* C1: the number of jobs in state running, over all sessions, never exceeds
\* GLOBAL_MAX_RUNNING
C1_GlobalCap == Cardinality(RunningJobs(state)) <= GLOBAL_MAX_RUNNING

\* positions in the log of the JobEnqueued events
Enqueues == {i \in 1..Len(log) : log[i].type = "JobEnqueued"}

\* the dedup key a JobEnqueued event carries
KeyAt(i) == DedupeKey(log[i].thread_id, log[i].discord_message_id)

\* the job of the first JobEnqueued event that carries `key`
FirstEnqueued(key) == log[Min({i \in Enqueues : KeyAt(i) = key})].job_id

\* C2: each session has at most one job in state running, and exactly one iff
\* its running_job_id is non-null, which then is that job's id
C2_OneRunningPerSession ==
  \A t \in DOMAIN state.sessions :
    LET R == JobsIn(state, t, "running")
        rid == state.sessions[t].running_job_id
    IN /\ Cardinality(R) <= 1
       /\ (Cardinality(R) = 1) <=> (rid # Null)
       /\ rid # Null => R = {rid}

\* C3: per thread, jobs start and finish in the order their JobEnqueued events
\* were written: a job of a thread has left the queue, or is in its adapter,
\* only when every job of that thread enqueued before it is terminal
C3_ThreadFifo ==
  \A i \in Enqueues, k \in Enqueues :
    (/\ i < k
     /\ log[i].thread_id = log[k].thread_id
     /\ Has(state.jobs, log[i].job_id)
     /\ Has(state.jobs, log[k].job_id)
     /\ \/ state.jobs[log[k].job_id].state # "queued"
        \/ /\ tasks[log[k].thread_id].job = log[k].job_id
           /\ tasks[log[k].thread_id].pc = "adapter")
    => Terminal(state.jobs[log[i].job_id])

\* C4: the log holds exactly one JobEnqueued event per dedup key, also when
\* two enqueueThreadMessage calls for the same message are in flight at once
C4_OneEnqueuePerKey ==
  \A i \in Enqueues, k \in Enqueues : KeyAt(i) = KeyAt(k) => i = k

\* C5: enqueueThreadMessage for a key already in the dedup index returns the
\* job id of the first enqueue with deduped = true, writes no event and leaves
\* the state unchanged; a call that enqueues returns deduped = false
C5_DedupeHit ==
  [][/\ \A t \in SpecThreads, m \in 1..MaxMsgs :
          (/\ enqueueThreadMessage("owner", t, m, MaxJobs)
           /\ Has(state.sessions, t)
           /\ Existing(state, DedupeKey(t, ChatMsg(m))))
          => /\ ret'.deduped
             /\ ret'.code = "ok"
             /\ ret'.job = FirstEnqueued(DedupeKey(t, ChatMsg(m)))
             /\ log' = log
             /\ state' = state
             /\ appendQ' = appendQ
     /\ (Len(log') > Len(log) /\ ret' # ret /\ ret'.op = "enqueue") => ~ret'.deduped]_vars

\* the queue of the session of the full-queue specification
QueueOf(t) == state.sessions[t].queue

\* C6: with MAX_QUEUE_PER_SESSION entries already in the session's queue,
\* enqueueThreadMessage for a new message fails with E_QUEUE_FULL, writes no
\* event, creates no job and installs no dedup key
C6_QueueFull ==
  [][\A m \in 1..(QueueJobs + 1) :
       (/\ enqueueThreadMessage("owner", "ta", m, QueueJobs)
        /\ ~Existing(state, DedupeKey("ta", ChatMsg(m)))
        /\ Len(QueueOf("ta")) >= MAX_QUEUE_PER_SESSION)
       => /\ ret'.code = "E_QUEUE_FULL"
          /\ ret'.job = Null
          /\ log' = log
          /\ appendQ' = appendQ
          /\ state' = state
          /\ idCounter' = idCounter]_vars

\* C6 witness: a new message was refused while the queue held the maximum
C6_Witness ==
  /\ ret.op = "enqueue"
  /\ ret.code = "E_QUEUE_FULL"
  /\ Len(QueueOf("ta")) >= MAX_QUEUE_PER_SESSION
  /\ ~Existing(state, DedupeKey("ta", ret.msg))

\* C7 as written: a call that finds exactly MAX_QUEUE_PER_SESSION entries
\* pending is admitted
C7_AsWritten ==
  [][\A m \in 1..(QueueJobs + 1) :
       (/\ enqueueThreadMessage("owner", "ta", m, QueueJobs)
        /\ ~Existing(state, DedupeKey("ta", ChatMsg(m)))
        /\ Len(QueueOf("ta")) = MAX_QUEUE_PER_SESSION)
       => ret'.code # "E_QUEUE_FULL"]_vars

\* C7: the boundary of queue admission: a call for a new message that finds
\* one entry fewer than MAX_QUEUE_PER_SESSION pending is admitted (its
\* JobEnqueued is submitted and fills the queue), and a call that finds
\* exactly MAX_QUEUE_PER_SESSION pending yields E_QUEUE_FULL
C7_Boundary ==
  [][\A m \in 1..(QueueJobs + 1) :
       (/\ enqueueThreadMessage("owner", "ta", m, QueueJobs)
        /\ ~Existing(state, DedupeKey("ta", ChatMsg(m))))
       => /\ Len(QueueOf("ta")) + 1 = MAX_QUEUE_PER_SESSION
             => /\ appendQ' = Append(appendQ, appendQ'[Len(appendQ')])
                /\ appendQ'[Len(appendQ')].type = "JobEnqueued"
                /\ appendQ'[Len(appendQ')].who.msg = ChatMsg(m)
                /\ ret' = ret
          /\ Len(QueueOf("ta")) = MAX_QUEUE_PER_SESSION
             => ret'.code = "E_QUEUE_FULL"]_vars

\* C7 witness: the admitted calls filled the queue one by one to exactly the
\* maximum, and the next new message was refused
C7_Witness ==
  /\ Len(QueueOf("ta")) = MAX_QUEUE_PER_SESSION
  /\ appendQ = <<>>
  /\ idCounter = MAX_QUEUE_PER_SESSION + 1
  /\ ret.code = "E_QUEUE_FULL"
  /\ ret.msg = ChatMsg(idCounter + 1)

\* JobMarkedUnknownAfterCrash events of job j in a log
MarksOf(events, j) ==
  {i \in 1..Len(events) :
     events[i].type = "JobMarkedUnknownAfterCrash" /\ events[i].job_id = j}

\* C8: the recovery that follows startup replay leaves no job running: each
\* job that was running is unknown_after_crash, its session's running_job_id
\* is null, one JobMarkedUnknownAfterCrash event was written for it, the ids
\* returned are exactly those jobs, and every other job is unchanged
C8_Recovery ==
  [][(phase = "opened" /\ phase' = "recovered") =>
       LET R == RunningJobs(state)
       IN /\ RunningJobs(state') = {}
          /\ DOMAIN state'.jobs = DOMAIN state.jobs
          /\ \A j \in R :
               /\ state'.jobs[j].state = "unknown_after_crash"
               /\ state'.sessions[state.jobs[j].thread_id].running_job_id = Null
               /\ Cardinality(MarksOf(log', j)) = 1
          /\ {marked'[i] : i \in 1..Len(marked')} = R
          /\ Len(marked') = Cardinality(R)
          /\ Len(log') = Len(log) + Cardinality(R)
          /\ SubSeq(log', 1, Len(log)) = log
          /\ \A j \in DOMAIN state.jobs \ R :
               /\ state'.jobs[j] = state.jobs[j]
               /\ MarksOf(log', j) = MarksOf(log, j)]_vars

\* C8 witness: recovery has marked a job that was running when the process died
C8_Witness ==
  /\ phase = "recovered"
  /\ marked # <<>>
  /\ state.jobs[marked[1]].state = "unknown_after_crash"

\* C9: recovery run a second time in a row marks no job and writes no event:
\* state and log are those of the first run
C9_RecoveryIdempotent ==
  [][(phase = "recovered" /\ phase' = "recovered") =>
       /\ state' = state
       /\ log' = log
       /\ marked' = <<>>]_vars

\* C9 witness: the second run has returned, after a first run that marked a job
C9_Witness ==
  /\ phase = "recovered"
  /\ marked = <<>>
  /\ log # <<>>
  /\ log[Len(log)].type = "JobMarkedUnknownAfterCrash"
  /\ RunningJobs(state) = {}

\* C10: replaying the whole log from the empty state, and loading the
\* snapshot then applying the events with a larger seq, give the same state
C10_SnapshotReplay ==
  LET full == Replay(NoSnapshot, log)
      tail == Replay(snapshot, log)
  IN /\ full.ok
     /\ tail.ok
     /\ full.state = tail.state
     /\ phase # "down" => state = full.state

\* C10 witness: the process was opened from a snapshot taken inside the
\* history, with events before and after the snapshot point
C10_Witness ==
  /\ phase = "opened"
  /\ snapshot.present
  /\ snapshot.state.seq > Len(SetupLog(StoreThreads, "gemini"))
  /\ snapshot.state.seq < Len(log)
  /\ state.jobs # <<>>

\* C11: the seq values of the log are 1, 2, 3, ... with no gap and no
\* duplicate, with several appendEvent calls in flight and across a restart
\* from snapshot plus log; the last applied seq is that of the last event
C11_SeqContiguous ==
  /\ Intact(log)
  /\ phase \in {"up", "opened", "recovered"} => state.seq = Len(log)

\* C11 witness: after a restart from a snapshot and a tail of the log, with
\* the recovery mark written, further events were written and more wait
C11_Witness ==
  /\ phase = "up"
  /\ snapshot.present
  /\ appendQ # <<>>
  /\ \E i \in 1..Len(log) :
       /\ log[i].type = "JobMarkedUnknownAfterCrash"
       /\ snapshot.state.seq + 1 < i
       /\ i < Len(log)

\* the events of a log with a seq above n, in the order of the file
TailOf(events, n) == SelectSeq(events, LAMBDA e : e.seq > n)

\* the events applied one after the other
RECURSIVE ApplyAll(_, _)
ApplyAll(s, events) ==
  IF events = <<>> THEN s ELSE ApplyAll(ApplyEvent(s, Head(events)), Tail(events))

\* C12: startup replay skips the events with seq at most the snapshot's seq,
\* applies the others when each has the seq after the last applied one, and
\* aborts startup, serving no state, when they have a gap or a duplicate
C12_ReplayGap ==
  [][(phase = "down" /\ phase' # "down") =>
       LET n == LoadSnapshot(snapshot).seq
           tail == TailOf(log, n)
       IN IF \A k \in 1..Len(tail) : tail[k].seq = n + k
          THEN /\ phase' = "opened"
               /\ state' = ApplyAll(LoadSnapshot(snapshot), tail)
          ELSE /\ phase' = "aborted"
               /\ state' = EmptyState]_vars

\* C12 witness: startup was aborted on a log damaged after the snapshot point
C12_Witness ==
  /\ phase = "aborted"
  /\ snapshot.present
  /\ ~Intact(log)
  /\ state = EmptyState

\* the moves of a job's state
JobMoves ==
  {<<"queued", "running">>, <<"running", "success">>, <<"running", "failed">>,
   <<"running", "unknown_after_crash">>}

\* C13: a job's state moves only queued -> running -> success, failed or
\* unknown_after_crash; a job that appears is queued, no job disappears, and
\* the job a retry names keeps its state
C13_JobStateMachine ==
  [][(phase \notin {"down", "aborted"} /\ phase' \notin {"down", "aborted"}) =>
       /\ \A j \in DOMAIN state.jobs :
            /\ Has(state'.jobs, j)
            /\ \/ state'.jobs[j].state = state.jobs[j].state
               \/ <<state.jobs[j].state, state'.jobs[j].state>> \in JobMoves
       /\ \A j \in DOMAIN state'.jobs \ DOMAIN state.jobs :
            state'.jobs[j].state = "queued"
       /\ \A j \in 1..RetryJobs :
            (retryJob("owner", j, RetryJobs) /\ Has(state.jobs, j))
            => state'.jobs[j] = state.jobs[j]]_vars

\* C13 witness: a job marked unknown_after_crash was retried, and the retry
\* has run to its end while the retried job kept its state
C13_Witness ==
  /\ phase = "up"
  /\ \E j \in DOMAIN state.jobs, k \in DOMAIN state.jobs :
       /\ state.jobs[j].state = "unknown_after_crash"
       /\ state.jobs[k].discord_message_id = RetryMsg(j, k)
       /\ Terminal(state.jobs[k])

\* the fields of a job fixed when JobEnqueued creates it
Frozen(job) ==
  [job_id |-> job.job_id, thread_id |-> job.thread_id,
   discord_message_id |-> job.discord_message_id, prompt |-> job.prompt,
   tool |-> job.tool, attempt |-> job.attempt]

\* C14 as written: started_at is among the fields that never change after
\* the job is created
C14_AsWritten ==
  [][(phase \notin {"down", "aborted"} /\ phase' \notin {"down", "aborted"}) =>
       \A j \in DOMAIN state.jobs \cap DOMAIN state'.jobs :
         /\ Frozen(state'.jobs[j]) = Frozen(state.jobs[j])
         /\ state'.jobs[j].started_at = state.jobs[j].started_at]_vars

\* C14: job_id, thread_id, discord_message_id, prompt, tool and attempt never
\* change after JobEnqueued created the job; started_at is set once, by
\* JobStarted, when the job moves from queued to running
C14_FrozenFields ==
  [][(phase \notin {"down", "aborted"} /\ phase' \notin {"down", "aborted"}) =>
       \A j \in DOMAIN state.jobs \cap DOMAIN state'.jobs :
         /\ Frozen(state'.jobs[j]) = Frozen(state.jobs[j])
         /\ state'.jobs[j].started_at # state.jobs[j].started_at
            => /\ state.jobs[j].state = "queued"
               /\ state'.jobs[j].state = "running"
               /\ state.jobs[j].started_at = Null]_vars

\* C14 witness: a retried job (attempt 2) has started and failed: its state,
\* started_at, finished_at and error_code have all changed since its creation
C14_Witness ==
  \E j \in DOMAIN state.jobs :
    /\ state.jobs[j].attempt > 1
    /\ state.jobs[j].state = "failed"
    /\ state.jobs[j].started_at # Null
    /\ state.jobs[j].finished_at # Null
    /\ state.jobs[j].error_code # "none"

\* positions in the log of the events of the given types about job j
EventsOf(j, types) ==
  {i \in 1..Len(log) : log[i].type \in types /\ log[i].job_id = j}

JobEventTypes ==
  {"JobEnqueued", "JobStarted", "JobCompleted", "JobFailed", "JobMarkedUnknownAfterCrash"}

FinalEventTypes == {"JobCompleted", "JobFailed", "JobMarkedUnknownAfterCrash"}

LoggedJobs == {log[i].job_id : i \in {k \in 1..Len(log) : log[k].type \in JobEventTypes}}

\* C15: in the log every job has one JobEnqueued, after it at most one
\* JobStarted, and after that at most one of JobCompleted, JobFailed and
\* JobMarkedUnknownAfterCrash; no final event without an earlier JobStarted,
\* no JobStarted without an earlier JobEnqueued
C15_EventOrder ==
  \A j \in LoggedJobs :
    LET enq == EventsOf(j, {"JobEnqueued"})
        sta == EventsOf(j, {"JobStarted"})
        fin == EventsOf(j, FinalEventTypes)
    IN /\ Cardinality(enq) = 1
       /\ Cardinality(sta) <= 1
       /\ Cardinality(fin) <= 1
       /\ \A a \in sta : \E e \in enq : e < a
       /\ \A f \in fin : \E a \in sta : a < f

\* C15 witness: the log holds all three events of two jobs, one ended by
\* JobMarkedUnknownAfterCrash after a restart, the other by JobCompleted or
\* JobFailed
C15_Witness ==
  \E j, k \in LoggedJobs :
    /\ EventsOf(j, {"JobMarkedUnknownAfterCrash"}) # {}
    /\ EventsOf(k, {"JobCompleted", "JobFailed"}) # {}
    /\ EventsOf(j, {"JobStarted"}) # {}
    /\ EventsOf(k, {"JobStarted"}) # {}

\* the JobEnqueued requests an enqueueThreadMessage call has just handed to
\* appendEvent
NewEnqueueRequests ==
  {i \in (Len(appendQ) + 1)..Len(appendQ') :
     appendQ'[i].type = "JobEnqueued" /\ appendQ'[i].who.kind = "enqueue"}

\* C16: a job is enqueued with the tool its session has at that moment; no
\* step (the application of ToolChanged included) changes the tool of an
\* existing job; the adapter processJob runs is the one of job.tool
C16_ToolFrozen ==
  [][/\ \A j \in DOMAIN state.jobs \cap DOMAIN state'.jobs :
          state'.jobs[j].tool = state.jobs[j].tool
     /\ \A i \in NewEnqueueRequests :
          appendQ'[i].payload.tool = state.sessions[appendQ'[i].payload.thread_id].tool
     /\ \A t \in Threads :
          tasks'[t].pc = "adapter" => tasks'[t].tool = state'.jobs[tasks'[t].job].tool]_vars

\* C16 witness: a job enqueued under gemini runs on the gemini adapter while
\* the session's tool is codex, and a job enqueued after the switch waits
\* with tool codex
C16_Witness ==
  /\ tasks["ta"].pc = "adapter"
  /\ tasks["ta"].tool = "gemini"
  /\ state.sessions["ta"].tool = "codex"
  /\ \E j \in DOMAIN state.jobs : state.jobs[j].state = "queued" /\ state.jobs[j].tool = "codex"

\* job ids in the state or in a JobEnqueued call still waiting to be written
KnownJobIds ==
  DOMAIN state.jobs
  \cup {appendQ[i].payload.job_id : i \in {k \in 1..Len(appendQ) : appendQ[k].type = "JobEnqueued"}}

\* C17: a retryJob call on a failed or unknown_after_crash job hands exactly
\* one JobEnqueued to the store, for a fresh job id, with the thread, prompt
\* and tool of the retried job, attempt + 1 and message id retry:<old>:<new>,
\* and leaves the retried job as it was; on an unknown, queued, running or
\* successful job it fails with E_JOB_NOT_RETRYABLE and nothing is written
C17_Retry ==
  [][\A j \in 1..RetryJobs :
       retryJob("owner", j, RetryJobs) =>
         IF Has(state.jobs, j) /\ state.jobs[j].state \in {"failed", "unknown_after_crash"}
         THEN /\ Len(appendQ') = Len(appendQ) + 1
              /\ SubSeq(appendQ', 1, Len(appendQ)) = appendQ
              /\ LET req == appendQ'[Len(appendQ')]
                     old == state.jobs[j]
                 IN /\ req.type = "JobEnqueued"
                    /\ req.payload.job_id \notin KnownJobIds
                    /\ req.payload.thread_id = old.thread_id
                    /\ req.payload.prompt = old.prompt
                    /\ req.payload.tool = old.tool
                    /\ req.payload.attempt = old.attempt + 1
                    /\ req.payload.discord_message_id = <<"retry", j, req.payload.job_id>>
              /\ state' = state
              /\ log' = log
         ELSE /\ ret'.code = "E_JOB_NOT_RETRYABLE"
              /\ appendQ' = appendQ
              /\ log' = log
              /\ state' = state]_vars

\* C17 witness: the retry of a failed job has returned its new job, which is
\* in the state with attempt 2 next to the unchanged failed job; the log
\* holds one JobEnqueued for it
C17_Witness ==
  /\ ret.op = "retry"
  /\ ret.code = "ok"
  /\ Has(state.jobs, ret.job)
  /\ state.jobs[ret.job].attempt = 2
  /\ \E j \in DOMAIN state.jobs :
       /\ state.jobs[j].state = "failed"
       /\ state.jobs[j].attempt = 1
       /\ state.jobs[ret.job].discord_message_id = RetryMsg(j, ret.job)
  /\ Cardinality(EventsOf(ret.job, {"JobEnqueued"})) = 1

\* a call of any operation of the service by the stranger
StrangerCall ==
  \/ createProject("stranger")
  \/ listProjects("stranger")
  \/ projectStatus("stranger")
  \/ startSession("stranger", "ta", "gemini", OwnerSessions)
  \/ listSessions("stranger")
  \/ openSession("stranger", "ta")
  \/ status("stranger", "ta")
  \/ enqueueThreadMessage("stranger", "ta", 1, OwnerJobs)
  \/ \E j \in 1..OwnerJobs : retryJob("stranger", j, OwnerJobs)
  \/ changeTool("stranger", "ta", "codex", OwnerSessions)

\* C18: an operation called by someone other than the owner fails with
\* E_OWNER_ONLY whatever else is wrong with the call, hands no event to the
\* store and leaves the runtime state, the log and the projects as they were
C18_OwnerOnly ==
  [][StrangerCall =>
       /\ ret'.code = "E_OWNER_ONLY"
       /\ UNCHANGED <<state, log, snapshot, appendQ, projects, idCounter,
                      runningThreads, tasks>>]_vars

\* C18 witness: the stranger's retry of a job that does not exist was refused
\* with E_OWNER_ONLY while no project and no session exists
C18_Witness ==
  /\ ret.op = "retry"
  /\ ret.code = "E_OWNER_ONLY"
  /\ ~Has(state.jobs, ret.job)
  /\ projects = {}
  /\ state.sessions = EmptyState.sessions

\* C19: waitForIdle returns only when no job is in state running and every
\* session's queue is empty
C19_IdleOnly ==
  [][(waitForIdle /\ ret'.code = "ok") =>
       /\ RunningJobs(state') = {}
       /\ ~hasQueuedJobs(state')]_vars

\* C19: with adapters that return and messages that stop arriving, a caller
\* of waitForIdle eventually gets its answer
C19_IdleReached == <>(ret.op = "waitForIdle" /\ ret.code = "ok")

\* C20: every job that JobStarted made running is eventually ended by
\* JobCompleted or JobFailed while the process stays up
C20_NoStuckJob ==
  \A j \in 1..LiveJobs :
    (Has(state.jobs, j) /\ state.jobs[j].state = "running")
      ~> (Has(state.jobs, j) /\ state.jobs[j].state \in {"success", "failed"})

\* the reply is a failure of the command itself
CommandFailed(reply) ==
  reply.kind = "error" \/ reply.timedOut \/ reply.exitCode # 0

\* C21: the Gemini adapter asks the runner at most twice, with the same argv;
\* it goes round only after a first reply that exited nonzero, did not time
\* out and carries a hint; a timeout, a spawn error, a nonzero exit without
\* hint or any failure of the second invocation is returned as a failure
\* with no further request; the other adapters ask once
C21_GeminiRetry ==
  LET r == adapterRun
  IN /\ Len(r.requests) <= 2
     /\ \A i \in 1..Len(r.requests) : r.requests[i] = buildArgs(r.tool, r.input)
     /\ r.tool # "gemini" => Len(r.requests) <= 1
     /\ r.pc = "retrying" =>
          /\ Len(r.requests) = 1
          /\ r.failedReply.kind = "result"
          /\ r.failedReply.exitCode # 0
          /\ ~r.failedReply.timedOut
          /\ r.failedReply.hinted
     /\ (r.tool = "gemini" /\ r.pc = "done") =>
          /\ Len(r.requests) = r.attempt
          /\ CommandFailed(r.reply) => ~r.result.ok
          /\ (Len(r.requests) = 1 /\ CommandFailed(r.reply)) =>
               \/ r.reply.kind = "error"
               \/ r.reply.timedOut
               \/ ~hasTransientErrorHint(r.reply.stdoutLines \o r.reply.stderrLines)
               \/ ScanSession(r.reply.stdoutLines, NoScan).parseError

\* C21 witness: the Gemini adapter has returned the failure of its second
\* invocation, which again exited nonzero with a hint, after two requests
C21_Witness ==
  /\ adapterRun.tool = "gemini"
  /\ adapterRun.pc = "done"
  /\ Len(adapterRun.requests) = 2
  /\ adapterRun.reply.kind = "result"
  /\ adapterRun.reply.exitCode # 0
  /\ ~adapterRun.reply.timedOut
  /\ hasTransientErrorHint(adapterRun.reply.stderrLines)
  /\ adapterRun.result.errorCode = "E_CLI_EXIT_NONZERO"

\* the events of a stdout stream: its lines that hold a JSON object
Events(lines) ==
  SelectSeq(lines, LAMBDA l : isLikelyJsonObjectLine(l) /\ l.parses)

\* the result events of a stdout stream
ResultEvents(lines) ==
  SelectSeq(Events(lines), LAMBDA l : l.json.type = "result")

\* the status of a stream: that of its last result event carrying a string
\* status
StreamStatus(lines) ==
  LET withStatus == SelectSeq(ResultEvents(lines), LAMBDA l : IsString(l.json.status))
  IN IF withStatus = <<>> THEN NoKey ELSE withStatus[Len(withStatus)].json.status

\* the reply of a command that exited 0 in time and whose brace-to-brace
\* stdout lines all parse
CleanExit(reply) ==
  /\ reply.kind = "result"
  /\ ~reply.timedOut
  /\ reply.exitCode = 0
  /\ \A i \in 1..Len(reply.stdoutLines) :
       isLikelyJsonObjectLine(reply.stdoutLines[i]) => reply.stdoutLines[i].parses

\* the Gemini adapter has returned the result of a reply of the runner
GeminiReturned ==
  /\ adapterRun.tool = "gemini"
  /\ adapterRun.pc = "done"
  /\ adapterRun.reply.kind = "result"

\* C22 as written: ok only with a result event of status success; exit code
\* 0 without result event fails with E_ADAPTER_MISSING_RESULT, a result
\* whose status is not success fails with E_CLI_EXIT_NONZERO
C22_AsWritten ==
  GeminiReturned =>
    LET reply == adapterRun.reply
        result == adapterRun.result
    IN /\ result.ok => /\ ResultEvents(reply.stdoutLines) # <<>>
                       /\ StreamStatus(reply.stdoutLines) = "success"
       /\ (reply.exitCode = 0 /\ ResultEvents(reply.stdoutLines) = <<>>) =>
            (~result.ok /\ result.errorCode = "E_ADAPTER_MISSING_RESULT")
       /\ (ResultEvents(reply.stdoutLines) # <<>>
           /\ StreamStatus(reply.stdoutLines) # "success") =>
            (~result.ok /\ result.errorCode = "E_CLI_EXIT_NONZERO")

\* C22: the Gemini adapter returns ok only for a command that exited 0 in
\* time, whose brace-to-brace lines all parse, with a result event, the last
\* string status of the result events being success; such a command without
\* result event fails with E_ADAPTER_MISSING_RESULT, and with result events
\* whose last string status is not success with E_CLI_EXIT_NONZERO
C22_Completion ==
  GeminiReturned =>
    LET reply == adapterRun.reply
        result == adapterRun.result
    IN /\ result.ok => /\ CleanExit(reply)
                       /\ ResultEvents(reply.stdoutLines) # <<>>
                       /\ StreamStatus(reply.stdoutLines) = "success"
       /\ (CleanExit(reply) /\ ResultEvents(reply.stdoutLines) = <<>>) =>
            (~result.ok /\ result.errorCode = "E_ADAPTER_MISSING_RESULT")
       /\ (CleanExit(reply) /\ ResultEvents(reply.stdoutLines) # <<>>
           /\ StreamStatus(reply.stdoutLines) # "success") =>
            (~result.ok /\ result.errorCode = "E_CLI_EXIT_NONZERO")

\* C22 witness: a command that exited 0 with a successful result event
\* followed by a failed one was returned as E_CLI_EXIT_NONZERO
C22_Witness ==
  /\ GeminiReturned
  /\ CleanExit(adapterRun.reply)
  /\ Len(ResultEvents(adapterRun.reply.stdoutLines)) = 2
  /\ ResultEvents(adapterRun.reply.stdoutLines)[1].json.status = "success"
  /\ StreamStatus(adapterRun.reply.stdoutLines) = "error"
  /\ adapterRun.result.errorCode = "E_CLI_EXIT_NONZERO"

\* the stdout lines that do not pass the JSON-object heuristic
Diagnostics(lines) ==
  SelectSeq(lines, LAMBDA l : ~isLikelyJsonObjectLine(l))

\* the reply without those lines
Stripped(reply) ==
  [reply EXCEPT !.stdoutLines = SelectSeq(@, isLikelyJsonObjectLine)]

\* what the adapter of a returned run returns for `reply` instead
ResultFor(run, reply) ==
  CASE run.tool = "claude" -> ClaudeResult(reply)
    [] run.tool = "codex" -> CodexResult(reply)
    [] run.tool = "gemini" -> GeminiTurn(reply, run.attempt).result

\* C23 (violated): whenever an adapter returns the result of a reply, ok and
\* errorCode are those it returns for the reply without its diagnostic stdout
\* lines, and diagnosticLogs holds exactly those lines in order; the Gemini
\* adapter goes round only when it would also do so without them
C23_DiagnosticsHarmless ==
  /\ (adapterRun.pc = "done" /\ adapterRun.reply.kind = "result") =>
       LET other == ResultFor(adapterRun, Stripped(adapterRun.reply))
       IN /\ adapterRun.result.ok = other.ok
          /\ adapterRun.result.errorCode = other.errorCode
          /\ adapterRun.result.diagnosticLogs = Diagnostics(adapterRun.reply.stdoutLines)
  /\ adapterRun.pc = "retrying" => adapterRun.failedReply.hintedEvents

\* the two results agree in ok and errorCode for every returned run
C23_SameOutcome ==
  (adapterRun.pc = "done" /\ adapterRun.reply.kind = "result") =>
    LET other == ResultFor(adapterRun, Stripped(adapterRun.reply))
    IN /\ adapterRun.result.ok = other.ok
       /\ adapterRun.result.errorCode = other.errorCode

\* diagnostic lines are all kept when the command neither timed out nor
\* printed a brace-to-brace line that does not parse
C23_KeptUnlessCutShort ==
  (adapterRun.pc = "done" /\ adapterRun.reply.kind = "result"
   /\ adapterRun.result.errorCode \notin {"E_CLI_TIMEOUT", "E_ADAPTER_PARSE"}) =>
    adapterRun.result.diagnosticLogs = Diagnostics(adapterRun.reply.stdoutLines)

\* a diagnostic line alone made the Gemini adapter go round
C23_RetryByDiagnostic ==
  adapterRun.pc = "retrying" /\ ~adapterRun.failedReply.hintedEvents

\* the resume key a stdout line carries for `tool`
LineKey(tool, line) ==
  IF tool = "codex" THEN line.json.thread_id ELSE line.json.session_id

\* some event of the stream carries a non-empty string key for `tool`
CarriesKey(tool, lines) ==
  \E i \in 1..Len(Events(lines)) :
    /\ IsString(LineKey(tool, Events(lines)[i]))
    /\ LineKey(tool, Events(lines)[i]) # ""

\* the resume key in an adapterState for `tool`
StoredKey(tool, adapterState) ==
  IF tool = "codex" THEN adapterState.thread_id ELSE adapterState.session_id

\* an adapter has returned the result of a reply of the runner
AdapterReturned ==
  /\ adapterRun.pc = "done"
  /\ adapterRun.reply.kind = "result"

\* C24 as written: an ok result carries a non-empty key; exit code 0 without
\* any event carrying the key fails with E_ADAPTER_SESSION_KEY_MISSING and an
\* empty adapterState
C24_AsWritten ==
  AdapterReturned =>
    LET tool == adapterRun.tool
        reply == adapterRun.reply
        result == adapterRun.result
    IN /\ result.ok => /\ StoredKey(tool, result.adapterState) # NoKey
                       /\ StoredKey(tool, result.adapterState) # ""
       /\ (reply.exitCode = 0 /\ ~CarriesKey(tool, reply.stdoutLines)) =>
            /\ ~result.ok
            /\ result.errorCode = "E_ADAPTER_SESSION_KEY_MISSING"
            /\ result.adapterState = EmptyAdapterState

\* C24: an ok result carries a non-empty key under the name of its tool;
\* exit code 0 without any event carrying the key fails with an empty
\* adapterState, and with E_ADAPTER_SESSION_KEY_MISSING when the command
\* ended in time, its brace-to-brace lines all parse and, for Gemini, the
\* stream completed with status success
C24_ResumeKey ==
  AdapterReturned =>
    LET tool == adapterRun.tool
        reply == adapterRun.reply
        result == adapterRun.result
        completed == tool = "gemini" =>
                       /\ ResultEvents(reply.stdoutLines) # <<>>
                       /\ StreamStatus(reply.stdoutLines) = "success"
    IN /\ result.ok => /\ StoredKey(tool, result.adapterState) # NoKey
                       /\ StoredKey(tool, result.adapterState) # ""
                       /\ result.adapterState =
                            [EmptyAdapterState EXCEPT
                               ![IF tool = "codex" THEN "thread_id" ELSE "session_id"] =
                                 StoredKey(tool, result.adapterState)]
       /\ (reply.exitCode = 0 /\ ~CarriesKey(tool, reply.stdoutLines)) =>
            /\ ~result.ok
            /\ result.adapterState = EmptyAdapterState
            /\ (CleanExit(reply) /\ completed) =>
                 result.errorCode = "E_ADAPTER_SESSION_KEY_MISSING"

\* C24 witness: the Gemini command exited 0 with a successful result event
\* and an init event whose session_id is "", and the run was returned as
\* E_ADAPTER_SESSION_KEY_MISSING with an empty adapterState
C24_Witness ==
  /\ GeminiReturned
  /\ CleanExit(adapterRun.reply)
  /\ StreamStatus(adapterRun.reply.stdoutLines) = "success"
  /\ \E i \in 1..Len(adapterRun.reply.stdoutLines) :
       /\ adapterRun.reply.stdoutLines[i].parses
       /\ adapterRun.reply.stdoutLines[i].json.session_id = ""
  /\ ~CarriesKey("gemini", adapterRun.reply.stdoutLines)
  /\ adapterRun.result.errorCode = "E_ADAPTER_SESSION_KEY_MISSING"
  /\ adapterRun.result.adapterState = EmptyAdapterState

\* the processJob of thread ta has its adapter result, whose command ran past
\* timeoutSec and was killed
TimedOutRun ==
  /\ tasks["ta"].pc \in {"appendEnd", "ended"}
  /\ adapterRun.reply.kind = "result"
  /\ adapterRun.reply.timedOut

\* C25: a run whose command was killed at timeoutSec is returned as ok=false
\* with E_CLI_TIMEOUT and the stdout and stderr lines captured, whatever the
\* command printed or exited with; once the final event of its job is
\* applied the job is failed with error_code E_CLI_TIMEOUT, and every job
\* with that error code is failed
C25_Timeout ==
  /\ TimedOutRun =>
       /\ ~adapterRun.result.ok
       /\ adapterRun.result.errorCode = "E_CLI_TIMEOUT"
       /\ adapterRun.result.stdoutLines = adapterRun.reply.stdoutLines
       /\ adapterRun.result.stderrLines = adapterRun.reply.stderrLines
  /\ (TimedOutRun /\ tasks["ta"].pc = "ended") =>
       /\ state.jobs[tasks["ta"].job].state = "failed"
       /\ state.jobs[tasks["ta"].job].error_code = "E_CLI_TIMEOUT"
  /\ \A j \in DOMAIN state.jobs :
       state.jobs[j].error_code = "E_CLI_TIMEOUT" => state.jobs[j].state = "failed"

\* C25 witness: the command printed its key and a successful result, exited
\* 0 and was still killed at the deadline; its job is failed with
\* E_CLI_TIMEOUT
C25_Witness ==
  /\ TimedOutRun
  /\ tasks["ta"].pc = "ended"
  /\ adapterRun.reply.exitCode = 0
  /\ adapterRun.reply.stdoutLines # <<>>
  /\ adapterRun.reply.stdoutLines[1].parses
  /\ state.jobs[tasks["ta"].job].state = "failed"
  /\ state.jobs[tasks["ta"].job].error_code = "E_CLI_TIMEOUT"

\* thread ids in lexicographic order
LexOrder == <<"ta", "tb", "tc">>

LexBefore(a, b) == IndexOf(LexOrder, a) < IndexOf(LexOrder, b)

\* the selection as the claim words it: among the sessions with a non-empty
\* queue and no running job (none recorded, none admitted by the run loop)
\* the one with the smallest last_activity_at, ties going to the smallest
\* thread_id; the head of its queue
PickByThreadId(s, rt) ==
  LET cands == {t \in DOMAIN s.sessions :
                  /\ s.sessions[t].queue # <<>>
                  /\ s.sessions[t].running_job_id = Null
                  /\ t \notin rt}
      First(a) == \A b \in cands \ {a} :
                    \/ s.sessions[a].last_activity_at < s.sessions[b].last_activity_at
                    \/ /\ s.sessions[a].last_activity_at = s.sessions[b].last_activity_at
                       /\ LexBefore(a, b)
  IN IF cands = {} THEN NoPick
     ELSE LET t == CHOOSE a \in cands : First(a)
          IN [threadId |-> t, jobId |-> Head(s.sessions[t].queue)]

\* the run loop, when called, asks pickNextRunnable
LoopWouldPick == UpOnly /\ ~kicking /\ HasFreeSlot(runningThreads)

\* C26 (violated): whenever the run loop can ask, pickNextRunnable returns
\* the head of the queue of the waiting session with the smallest
\* last_activity_at, the smallest thread_id among equals, and null only when
\* no session waits
C26_SmallestThreadId ==
  LoopWouldPick =>
    pickNextRunnable(state, runningThreads) = PickByThreadId(state, runningThreads)

\* pickNextRunnable returns null exactly when no session waits, and otherwise
\* the head of the queue of a waiting session with the smallest
\* last_activity_at
C26_OldestFirst ==
  LoopWouldPick =>
    LET pick == pickNextRunnable(state, runningThreads)
        byId == PickByThreadId(state, runningThreads)
    IN /\ pick = NoPick <=> byId = NoPick
       /\ pick # NoPick =>
            /\ pick.jobId = Head(state.sessions[pick.threadId].queue)
            /\ state.sessions[pick.threadId].last_activity_at
                 = state.sessions[byId.threadId].last_activity_at

\* the events of thread t that carry a session_id in their adapter_state
KeyEvents(t) ==
  {i \in 1..Len(log) :
     /\ log[i].type \in {"SessionCreated", "JobCompleted", "JobFailed"}
     /\ log[i].thread_id = t
     /\ log[i].adapter_state.session_id # NoKey}

\* the session_id last written for thread t, if any
LastKey(t) ==
  IF KeyEvents(t) = {} THEN NoKey
  ELSE log[Max(KeyEvents(t))].adapter_state.session_id

\* C27: the session holds the resume key last written by an event of its
\* thread, whatever events with an empty adapter_state followed, and a
\* processJob at its adapter step passes that key as resumeKey
C27_KeyKept ==
  /\ extractResumeKey(state.sessions["ta"]) = LastKey("ta")
  /\ tasks["ta"].pc = "adapter" => tasks["ta"].resumeKey = LastKey("ta")

\* C27 witness: job 1 completed with a key, job 2 failed with an empty
\* adapterState, and job 3 is run with the key of job 1 as resumeKey
C27_Witness ==
  /\ \E i, k \in 1..Len(log) :
       /\ i < k
       /\ log[i].type = "JobCompleted"
       /\ log[i].adapter_state.session_id = "gemini"
       /\ log[k].type = "JobFailed"
       /\ log[k].adapter_state = EmptyAdapterState
  /\ tasks["ta"].pc = "adapter"
  /\ tasks["ta"].job = 3
  /\ state.jobs[2].state = "failed"
  /\ tasks["ta"].resumeKey = "gemini"

\* the sessions of a scheduler that have a running job
RunningSessions(sch) ==
  {t \in DOMAIN sch.sessions : sch.sessions[t].running # JsNull}

\* C28: after every call runningTotal is the number of sessions with a
\* running job and at most globalMaxRunning; startNext returns a job only
\* for a thread without running job while runningTotal < globalMaxRunning,
\* and the job is the head of its queue, which becomes the running job; for
\* a thread with a running job or at the cap it returns null and changes no
\* queue; finishRunning with a job id that is not the running job of the
\* thread throws and changes nothing
C28_Scheduler ==
  [][LET a == scheduler
         b == scheduler'
         c == b.call
         t == c.threadId
     IN /\ b.runningTotal = Cardinality(RunningSessions(b))
        /\ b.runningTotal <= b.globalMaxRunning
        /\ (c.op = "startNext" /\ c.returned \notin {JsNull, Thrown}) =>
             /\ a.sessions[t].running = JsNull
             /\ a.runningTotal < a.globalMaxRunning
             /\ a.sessions[t].queue # <<>>
             /\ c.returned = Head(a.sessions[t].queue)
             /\ b.sessions[t].queue = Tail(a.sessions[t].queue)
             /\ b.sessions[t].running = c.returned
        /\ (c.op = "startNext" /\ Has(a.sessions, t)
            /\ (a.sessions[t].running # JsNull \/ a.runningTotal >= a.globalMaxRunning)) =>
             /\ c.returned = JsNull
             /\ b.sessions = a.sessions
             /\ b.runningTotal = a.runningTotal
        /\ (c.op = "finishRunning"
            /\ (~Has(a.sessions, t) \/ a.sessions[t].running # c.jobId)) =>
             /\ c.returned = Thrown
             /\ b.sessions = a.sessions
             /\ b.runningTotal = a.runningTotal
             /\ b.dedupe = a.dedupe]_vars

\* C28 witness: startNext returned null at the cap for a thread that has a
\* queued job and no running job
C28_Witness ==
  /\ scheduler.call.op = "startNext"
  /\ scheduler.call.returned = JsNull
  /\ scheduler.runningTotal = scheduler.globalMaxRunning
  /\ scheduler.sessions[scheduler.call.threadId].running = JsNull
  /\ scheduler.sessions[scheduler.call.threadId].queue # <<>>
  /\ Head(scheduler.sessions[scheduler.call.threadId].queue) # ""

\* C29: registerDedupe for a key not yet known returns true and records the
\* job id; for a known key it returns false and changes nothing; no call
\* ever changes or removes the job id of a known key, and lookupDedupe
\* returns it
C29_Dedupe ==
  [][LET a == scheduler
         b == scheduler'
         c == b.call
         key == c.threadId
     IN /\ \A k \in DOMAIN a.dedupe : Has(b.dedupe, k) /\ b.dedupe[k] = a.dedupe[k]
        /\ (c.op = "registerDedupe" /\ ~Has(a.dedupe, key)) =>
             /\ c.returned = "true"
             /\ b.dedupe = Put(a.dedupe, key, c.jobId)
        /\ (c.op = "registerDedupe" /\ Has(a.dedupe, key)) =>
             /\ c.returned = "false"
             /\ b.dedupe = a.dedupe
        /\ c.op = "lookupDedupe" =>
             /\ b.dedupe = a.dedupe
             /\ c.returned = IF Has(a.dedupe, key) THEN a.dedupe[key] ELSE Absent]_vars

\* C29 witness: a second registerDedupe for a known key, with another job
\* id, returned false and the first job id is still recorded
C29_Witness ==
  /\ scheduler.call.op = "registerDedupe"
  /\ scheduler.call.returned = "false"
  /\ Has(scheduler.dedupe, scheduler.call.threadId)
  /\ scheduler.dedupe[scheduler.call.threadId] # scheduler.call.jobId

\* C30: the derived state is running when running_job_id is non-null,
\* otherwise queued when the queue is non-empty, otherwise the state of the
\* last job when that is unknown_after_crash or failed, otherwise idle; a
\* session with a running job is never idle; status gives a retry hint
\* exactly when the job last_job_id names is failed or unknown_after_crash,
\* and the hint names that job
C30_Priority ==
  probe.op # "none" =>
    LET session == probe.session
        busy == session.running_job_id # Null
        waiting == session.queue # <<>>
        retryable == probe.lastJob.state \in {"failed", "unknown_after_crash"}
    IN /\ busy => probe.derived = "running"
       /\ (~busy /\ waiting) => probe.derived = "queued"
       /\ (~busy /\ ~waiting /\ retryable) => probe.derived = probe.lastJob.state
       /\ (~busy /\ ~waiting /\ ~retryable) => probe.derived = "idle"
       /\ busy => probe.derived # "idle"
       /\ probe.op = "status" =>
            /\ probe.lastJob =
                 (IF session.last_job_id = Null \/ ~Has(probe.jobs, session.last_job_id)
                  THEN UndefinedJob ELSE probe.jobs[session.last_job_id])
            /\ probe.hint.given <=> retryable
            /\ probe.hint.given => probe.hint.job_id = session.last_job_id

\* C30 witness: status on a session with a running job, a queued job and a
\* failed last job answered running and gave the retry hint
C30_Witness ==
  /\ probe.op = "status"
  /\ probe.session.running_job_id # Null
  /\ probe.session.queue # <<>>
  /\ probe.lastJob.state = "failed"
  /\ probe.derived = "running"
  /\ probe.hint = [given |-> TRUE, job_id |-> 1]

\* the places (thread, position) of job j in the session queues
PlacesOf(s, j) ==
  {<<t, i>> \in (DOMAIN s.sessions) \X (1..MaxJobs + CapJobs + QueueJobs) :
     i <= Len(s.sessions[t].queue) /\ s.sessions[t].queue[i] = j}

\* C31: every id in a session's queue names an existing job of that session
\* in state queued, and every queued job sits exactly once in the queue of
\* its own session and in no other queue - also after startSession is called
\* again for a thread that already has a session with queued or running jobs
C31_QueueInvariant ==
  /\ \A t \in DOMAIN state.sessions :
       \A i \in 1..Len(state.sessions[t].queue) :
         LET j == state.sessions[t].queue[i]
         IN /\ Has(state.jobs, j)
            /\ state.jobs[j].state = "queued"
            /\ state.jobs[j].thread_id = t
  /\ \A j \in DOMAIN state.jobs :
       state.jobs[j].state = "queued" =>
         /\ Cardinality(PlacesOf(state, j)) = 1
         /\ \A p \in PlacesOf(state, j) : p[1] = state.jobs[j].thread_id

\* SessionCreated events of thread t in the log
CreationsOf(t) == {i \in 1..Len(log) : log[i].type = "SessionCreated" /\ log[i].thread_id = t}

\* C31 (part that holds): as long as no thread's session was created twice,
\* the queues and the queued jobs agree
C31_WithoutRecreation ==
  (\A t \in Threads : Cardinality(CreationsOf(t)) <= 1) => C31_QueueInvariant

\* a session was created again over queued work
C31_Recreated ==
  \E t \in Threads :
    /\ Cardinality(CreationsOf(t)) = 2
    /\ \E j \in DOMAIN state.jobs : state.jobs[j].thread_id = t /\ state.jobs[j].state = "queued"

\* C32: no session's queue ever holds more than MAX_QUEUE_PER_SESSION
\* entries, whatever the interleaving of enqueueThreadMessage and retryJob
\* calls with the application of their events
C32_QueueBound ==
  \A t \in DOMAIN state.sessions :
    Len(state.sessions[t].queue) <= MAX_QUEUE_PER_SESSION

\* a stdout line that passes the JSON-object heuristic and does not parse
Malformed(line) == isLikelyJsonObjectLine(line) /\ ~line.parses

\* the reply without those lines
WellFormed(reply) ==
  [reply EXCEPT !.stdoutLines = SelectSeq(@, LAMBDA l : ~Malformed(l))]

\* position of the first malformed line of a stream that has one
FirstMalformed(lines) ==
  CHOOSE i \in 1..Len(lines) :
    Malformed(lines[i]) /\ \A k \in 1..(i - 1) : ~Malformed(lines[k])

ThreadIds(lines) ==
  LET carrying == SelectSeq(Events(lines), LAMBDA l : IsString(l.json.thread_id))
  IN [i \in 1..Len(carrying) |-> carrying[i].json.thread_id]

\* those of its thread.started events
StartedIds(lines) ==
  LET carrying == SelectSeq(Events(lines),
                            LAMBDA l : l.json.type = "thread.started"
                                       /\ IsString(l.json.thread_id))
  IN [i \in 1..Len(carrying) |-> carrying[i].json.thread_id]

\* the Codex adapter has returned a successful run
CodexSucceeded ==
  /\ AdapterReturned
  /\ adapterRun.tool = "codex"
  /\ adapterRun.result.ok

\* C34: the Codex adapter stores as thread_id the value of the last stdout
\* event that carries a string thread_id, whatever the type of the event
C34_LastThreadIdWins ==
  CodexSucceeded =>
    LET ids == ThreadIds(adapterRun.reply.stdoutLines)
    IN /\ ids # <<>>
       /\ adapterRun.result.adapterState.thread_id = ids[Len(ids)]

\* C34 (what the adapter does): the thread_id of the last thread.started
\* event wins when it is not empty, whatever other events follow it; without
\* such an event the first non-empty thread_id of the stream is kept
C34_StartedWinsElseFirst ==
  CodexSucceeded =>
    LET ids == ThreadIds(adapterRun.reply.stdoutLines)
        started == StartedIds(adapterRun.reply.stdoutLines)
        filled == SelectSeq(ids, LAMBDA k : k # "")
        stored == adapterRun.result.adapterState.thread_id
    IN /\ (started # <<>> /\ started[Len(started)] # "") => stored = started[Len(started)]
       /\ started = <<>> => (filled # <<>> /\ stored = filled[1])

\* a successful Codex run kept the thread_id of thread.started although a
\* later event carried another one
C34_EarlierIdKept ==
  /\ CodexSucceeded
  /\ ThreadIds(adapterRun.reply.stdoutLines) = <<"t1", "t2">>
  /\ adapterRun.result.adapterState.thread_id = "t1"

\* the chunk an event contributes to the assistant text of `tool`
ChunkOf(tool, e) ==
  IF tool = "gemini" /\ IsString(e.delta) THEN e.delta ELSE e.text

\* the non-empty chunks of a stream, in stream order
Chunks(tool, events) ==
  SelectSeq([i \in 1..Len(events) |-> ChunkOf(tool, events[i])], LAMBDA c : c # "")

\* a sequence without the elements that repeat their predecessor
RECURSIVE Suppressed(_)
Suppressed(seq) ==
  IF Len(seq) <= 1 THEN seq
  ELSE LET front == Suppressed(SubSeq(seq, 1, Len(seq) - 1))
       IN IF seq[Len(seq)] = seq[Len(seq) - 1] THEN front ELSE Append(front, seq[Len(seq)])

\* C35: for each of the three adapters the accumulated assistant text lists
\* the chunks in stream order with consecutive duplicates suppressed: no two
\* equal adjacent chunks, equal chunks that are not adjacent both kept
C35_ConsecutiveDuplicates ==
  probe.done =>
    /\ \A i \in 1..(Len(probe.parts) - 1) : probe.parts[i] # probe.parts[i + 1]
    /\ probe.parts = Suppressed(Chunks(probe.tool, probe.events))

\* C35 (part that holds): the Claude and Codex adapters suppress consecutive
\* duplicates; the Gemini adapter keeps every chunk, in stream order
C35_SuppressedExceptGemini ==
  probe.done =>
    /\ probe.tool \in {"claude", "codex"} =>
         /\ \A i \in 1..(Len(probe.parts) - 1) : probe.parts[i] # probe.parts[i + 1]
         /\ probe.parts = Suppressed(Chunks(probe.tool, probe.events))
    /\ probe.tool = "gemini" =>
         SelectSeq(probe.parts, LAMBDA c : c # "") = Chunks("gemini", probe.events)

\* the Gemini adapter returned two equal adjacent chunks
C35_GeminiRepeats ==
  /\ probe.done
  /\ probe.tool = "gemini"
  /\ probe.parts = <<"a", "a">>

\* an adapter kept two equal chunks that are not adjacent
C35_NonAdjacentKept ==
  /\ probe.done
  /\ probe.tool = "codex"
  /\ probe.parts = <<"a", "b", "a">>

\* JobStarted events of job j in the log
StartedEvents(j) == {i \in 1..Len(log) : log[i].type = "JobStarted" /\ log[i].job_id = j}

\* pending appendEvent calls of the processJob of thread t
TaskRequests(t) ==
  {i \in 1..Len(appendQ) : appendQ[i].who.kind = "task" /\ appendQ[i].who.thread = t}

C36_ThrownNotRestarted ==
  /\ ret.op = "waitForIdle"
  /\ \E j \in DOMAIN state.jobs :
       /\ state.jobs[j].state = "running"
       /\ tasks[state.jobs[j].thread_id].pc = "none"
       /\ Cardinality(StartedEvents(j)) = 1

\* positions of a processJob whose onJobStarted hook has fired
AfterStartedHook == {"started", "adapter", "appendEnd", "ended", "appendReturn", "returned"}

\* the processJob of thread t is over in the next state
ProcessJobEnds(t) ==
  /\ tasks[t].pc \in AfterStartedHook
  /\ tasks'[t].pc \in {"none", "appendStarted"}

\* the final events of job j in a log
FinalEvents(events, j) ==
  {i \in 1..Len(events) :
     events[i].type \in {"JobCompleted", "JobFailed"} /\ events[i].job_id = j}

\* C37: every job for which onJobStarted fired gets its onJobFinished call
\* before its processJob is over, fired once its JobCompleted or JobFailed
\* event is applied (state success or failed accordingly) - also for the
\* JobFailed of a missing project or a missing job/session
C37_FinishedHook ==
  [][\A t \in Threads :
       /\ ProcessJobEnds(t) => tasks[t].pc = "ended"
       /\ tasks'[t].pc = "ended" =>
            /\ Cardinality(FinalEvents(log', tasks'[t].job)) = 1
            /\ state'.jobs[tasks'[t].job].state \in {"success", "failed"}]_vars

\* C37 (part that holds): a processJob that reached adapter.run fires
\* onJobFinished once, after its final event is applied, unless it throws
C37_AfterAdapterRun ==
  [][\A t \in Threads :
       /\ (ProcessJobEnds(t) /\ tasks[t].pc \in {"adapter", "appendEnd", "ended"})
            => tasks[t].pc = "ended"
       /\ tasks'[t].pc = "ended" =>
            /\ Cardinality(FinalEvents(log', tasks'[t].job)) = 1
            /\ state'.jobs[tasks'[t].job].state \in {"success", "failed"}]_vars

\* a processJob returned after the JobFailed of a missing project without
\* firing onJobFinished
C37_ReturnedWithoutHook ==
  /\ tasks["ta"].pc = "returned"
  /\ state.jobs[tasks["ta"].job].state = "failed"
  /\ state.jobs[tasks["ta"].job].error_code = "E_PROJECT_NOT_FOUND"

\* the key stored for `tool` in the adapter_state of the session of thread t
NamespaceKey(t, tool) ==
  IF tool = "codex" THEN state.sessions[t].adapter_state.thread_id
  ELSE state.sessions[t].adapter_state.session_id

\* C38: the resume key handed to the adapter of a job is the one stored in the
\* namespace of the job's tool (thread_id for codex, session_id otherwise)
\* and was produced by that tool (a stored key is the name of the tool that
\* returned it), also for a job queued before a ToolChanged
C38_KeyOfJobTool ==
  \A t \in Threads :
    tasks[t].pc = "adapter" =>
      /\ tasks[t].resumeKey = NamespaceKey(t, tasks[t].tool)
      /\ tasks[t].resumeKey \in {NoKey, tasks[t].tool}

\* ToolChanged events in the log
ToolChanges == {i \in 1..Len(log) : log[i].type = "ToolChanged"}

\* C38 (part that holds): the key is taken from the namespace of the tool
\* the session has when the job is looked up; as long as the tool of the
\* session was never changed this is the tool of the job
C38_KeyOfSessionTool ==
  \A t \in Threads :
    tasks[t].pc = "adapter" =>
      /\ \E tool \in Tools : tasks[t].resumeKey = NamespaceKey(t, tool)
      /\ ToolChanges = {} => /\ tasks[t].resumeKey = NamespaceKey(t, tasks[t].tool)
                             /\ tasks[t].resumeKey \in {NoKey, tasks[t].tool}

\* a job of tool codex was handed the session_id that gemini returned
C38_ForeignKey ==
  /\ tasks["ta"].pc = "adapter"
  /\ tasks["ta"].tool = "codex"
  /\ tasks["ta"].resumeKey = "gemini"

\* job j is in state queued
QueuedJob(j) == Has(state.jobs, j) /\ state.jobs[j].state = "queued"

\* job j was started: JobStarted was applied to it
StartedJob(j) == Has(state.jobs, j) /\ state.jobs[j].state # "queued"

\* C39: no starvation: while adapter runs terminate and the process stays
\* up, every job that enters state queued is eventually started, whatever
\* the other threads keep enqueueing
C39_NoStarvation ==
  \A j \in 1..FairJobs : QueuedJob(j) ~> StartedJob(j)

\* a session was started again in a thread that already had one
SessionRecreated == \E t \in Threads : Cardinality(CreationsOf(t)) > 1

\* C39: a queued job is eventually started unless a session is started
\* again in some thread
C39_StartedUnlessRecreated ==
  \A j \in 1..FairJobs :
    (QueuedJob(j) /\ ~SessionRecreated) ~> (StartedJob(j) \/ SessionRecreated)

\* C39: a job is in state queued, in no queue, with nothing left to do: no
\* append is pending and no processJob is under way
C39_QueuedForever ==
  \E j \in 1..FairJobs :
    /\ QueuedJob(j)
    /\ PlacesOf(state, j) = {}
    /\ appendQ = <<>>
    /\ runningThreads = {}

\* C39: a thread with a queued job waits while both slots are taken by the
\* other two threads
C39_Waiting ==
  /\ state.sessions["tc"].queue # <<>>
  /\ runningThreads = {"ta", "tb"}

\* the bytes of a stream that have arrived
Arrived(s) == SubSeq(s.stream, 1, Len(s.stream) - Len(s.rest))

\* the buffer and lines of a stream that arrives as a single chunk
OneChunk(bytes) == onData(NoLines, bytes)

\* the text after the last line feed of a stream
RECURSIVE Fragment(_)
Fragment(bytes) ==
  IF bytes = <<>> \/ bytes[Len(bytes)] = "LF" THEN <<>>
  ELSE Append(Fragment(SubSeq(bytes, 1, Len(bytes) - 1)), bytes[Len(bytes)])

LineFeeds(bytes) == Cardinality({i \in 1..Len(bytes) : bytes[i] = "LF"})

\* the streams of the run
BothStreams == {probe.out, probe.err}

\* C40: the line buffer yields the same lines however the byte stream is
\* split into chunks, also when a chunk ends between CR and LF: at every
\* moment buffer and lines are those of the arrived bytes taken as one chunk;
\* each line is delivered once and in order (one per line feed, none holding
\* a line feed), and on close a trailing fragment without newline is the
\* final line, for stdout and for stderr
C40_ChunkInvariant ==
  \A s \in BothStreams :
    /\ ~probe.closed => s.st = OneChunk(Arrived(s))
    /\ probe.closed => s.st = onClose(OneChunk(s.stream))
    /\ \A i \in 1..Len(s.st.lines) : \A k \in 1..Len(s.st.lines[i]) : s.st.lines[i][k] # "LF"
    /\ probe.closed =>
         LET frag == Fragment(s.stream)
         IN /\ Len(s.st.lines) = LineFeeds(s.stream) + (IF frag = <<>> THEN 0 ELSE 1)
            /\ frag # <<>> => s.st.lines[Len(s.st.lines)] = frag

\* C40: a run has closed whose stdout was cut between CR and LF and gave the
\* line before the pair without the CR, and whose stderr ended in a fragment
C40_Witness ==
  /\ probe.closed
  /\ probe.out.cut
  /\ probe.out.stream = <<"a", "CR", "LF">>
  /\ probe.out.st.lines = <<(<<"a">>)>>
  /\ probe.err.stream = <<"LF", "a">>
  /\ probe.err.st.lines = <<(<<>>), (<<"a">>)>>

=============================================================================
